---- MODULE Spec2Model ----
(***************************************************************************)
(* Model of the Reva backend (server.js): the identifier generator with    *)
(* its three-tier fallback chain, the tool dispatcher and its per-tool     *)
(* validators, the response parser, and the handler of POST /api/v1/chat,  *)
(* for one request and for several requests in flight.                     *)
(*                                                                         *)
(* JavaScript values are tagged records [k |-> typeof-like tag, v |-> ..]; *)
(* strings are TLA+ strings, read character by character with SubSeq.      *)
(* Numbers are integers.  A call's completion is a record that either      *)
(* returns a value or throws an error, so that try/catch is modelled by    *)
(* what it does.                                                           *)
(*                                                                         *)
(* server.js ends (lines 1228-1334) with an appended self-test script that *)
(* declares generateUUID, generateFallbackUUID and isValidUUID a second    *)
(* time.  The model follows the first declarations (lines 14-162), which   *)
(* are the ones the handler and the tool executors are written against.    *)
(***************************************************************************)
EXTENDS Integers, Sequences, FiniteSets, TLC

\* op, arg, env, ret: the operation run, its argument, the behaviour of the
\*   random sources it saw, and its completion
\* past:  the earlier tool calls of this process, oldest first
\* trace: the stages the chat request handler went through
\* calls: the requests issued to the upstream completion endpoint
\* sent:  the HTTP responses written for the chat request
\* served: for each of several connections, the chat request in flight on it
VARIABLES op, arg, env, ret, past, trace, calls, sent, served

vars == <<op, arg, env, ret, past, trace, calls, sent, served>>

(***************************************************************************)
(* Bounds of the model.                                                    *)
(***************************************************************************)
\* largest trackExpenses batch that is enumerated
MaxBatch == 3

(***************************************************************************)
(* JavaScript values.                                                      *)
(***************************************************************************)
Undef == [k |-> "undefined"]
Null == [k |-> "null"]
Bool(b) == [k |-> "boolean", v |-> b]
Num(n) == [k |-> "number", v |-> n]
Str(s) == [k |-> "string", v |-> s]
Obj(f) == [k |-> "object", v |-> f]
Arr(s) == [k |-> "array", v |-> s]

EmptyFn == [key \in {} |-> Undef]

IsStr(x) == x.k = "string"
IsNum(x) == x.k = "number"
IsObj(x) == x.k = "object"
IsArr(x) == x.k = "array"
IsNullish(x) == x.k \in {"undefined", "null"}

\* typeof x
TypeOf(x) ==
  CASE x.k = "null" -> "object"
    [] x.k = "array" -> "object"
    [] OTHER -> x.k

\* ToBoolean(x): the falsy values are undefined, null, false, 0 and ""
Truthy(x) ==
  CASE x.k \in {"undefined", "null"} -> FALSE
    [] x.k = "boolean" -> x.v
    [] x.k = "number" -> x.v # 0
    [] x.k = "string" -> x.v # ""
    [] OTHER -> TRUE

\* a || b
OrElse(a, b) == IF Truthy(a) THEN a ELSE b

\* o[key] for a value that is not null or undefined: only objects carry the
\* property names the program reads
Get(o, key) ==
  IF IsObj(o) /\ key \in DOMAIN o.v THEN o.v[key] ELSE Undef

\* the object o with property key set to val
Put(o, key, val) == (key :> val) @@ o

Min(a, b) == IF a < b THEN a ELSE b

\* s.charAt(i - 1): the empty string outside the text
Char(s, i) == IF i >= 1 /\ i <= Len(s) THEN SubSeq(s, i, i) ELSE ""

\* the characters a..b of s that exist
Slice(s, a, b) == SubSeq(s, a, Min(b, Len(s)))

\* s.substring(a, b), 0-based, end exclusive, clamped to the length
Substring(s, a, b) == SubSeq(s, a + 1, Min(b, Len(s)))

\* the greatest element of a non-empty set of numbers
SetMax(S) == CHOOSE x \in S : \A y \in S : x >= y

\* t occurs in s at 1-based position j
OccursAt(s, t, j) == SubSeq(s, j, j + Len(t) - 1) = t

\* s.indexOf(t) from 1-based position i; 0 when t does not occur
IndexFrom(s, t, i) ==
  IF \E j \in i..(Len(s) - Len(t) + 1) : OccursAt(s, t, j)
  THEN CHOOSE j \in i..(Len(s) - Len(t) + 1) :
         OccursAt(s, t, j) /\ \A m \in i..(j - 1) : ~OccursAt(s, t, m)
  ELSE 0

\* s.includes(t)
Includes(s, t) == IndexFrom(s, t, 1) # 0

IsSpace(c) == c \in {" ", "\t", "\n", "\r"}

RECURSIVE TrimStart(_)
TrimStart(s) ==
  IF s # "" /\ IsSpace(Char(s, 1)) THEN TrimStart(SubSeq(s, 2, Len(s))) ELSE s

RECURSIVE TrimEnd(_)
TrimEnd(s) ==
  IF s # "" /\ IsSpace(Char(s, Len(s))) THEN TrimEnd(SubSeq(s, 1, Len(s) - 1)) ELSE s

\* s.trim()
Trim(s) == TrimEnd(TrimStart(s))

HexDigits == "0123456789abcdef"

\* (n).toString(16) for 0 <= n < 256
RECURSIVE ToHex(_)
ToHex(n) ==
  IF n < 16 THEN Char(HexDigits, n + 1)
  ELSE ToHex(n \div 16) \o Char(HexDigits, (n % 16) + 1)

RECURSIVE NatToString(_)
NatToString(n) ==
  IF n < 10 THEN Char("0123456789", n + 1)
  ELSE NatToString(n \div 10) \o Char("0123456789", (n % 10) + 1)

RECURSIVE StringOf(_)
RECURSIVE JoinComma(_, _)
\* Array.prototype.join(","): null and undefined elements render as ""
JoinComma(s, i) ==
  IF i > Len(s) THEN ""
  ELSE (IF i > 1 THEN "," ELSE "")
       \o (IF IsNullish(s[i]) THEN "" ELSE StringOf(s[i]))
       \o JoinComma(s, i + 1)

\* String(x), as a template literal renders x
StringOf(x) ==
  CASE x.k = "string" -> x.v
    [] x.k = "undefined" -> "undefined"
    [] x.k = "null" -> "null"
    [] x.k = "boolean" -> IF x.v THEN "true" ELSE "false"
    [] x.k = "number" -> IF x.v < 0 THEN "-" \o NatToString(0 - x.v) ELSE NatToString(x.v)
    [] x.k = "array" -> JoinComma(x.v, 1)
    [] OTHER -> "[object Object]"

(***************************************************************************)
(* Completions: a call either returns a value or throws an error.  mints   *)
(* is the list of generateUUID completions the call made, in call order.   *)
(***************************************************************************)
\* new Error(message) with the properties the program assigns to it
Err(message, props) == [message |-> message, props |-> props]
NoError == Err("", EmptyFn)

\* error.<p>
Prop(e, p) == IF p \in DOMAIN e.props THEN e.props[p] ELSE Undef

Return(v) == [threw |-> FALSE, value |-> v, error |-> NoError]
Throw(e) == [threw |-> TRUE, value |-> Undef, error |-> e]

\* new Date().toISOString()
NowISO == "2024-01-15T10:00:00.000Z"

(***************************************************************************)
(* Identifier generator.                                                   *)
(***************************************************************************)
IsHexChar(c) ==
  c \in {"0", "1", "2", "3", "4", "5", "6", "7", "8", "9",
         "a", "b", "c", "d", "e", "f", "A", "B", "C", "D", "E", "F"}

\* /^[0-9a-f]{8}-[0-9a-f]{4}-4[0-9a-f]{3}-[89ab][0-9a-f]{3}-[0-9a-f]{12}$/i
\* applied to the string s
UuidRegexTest(s) ==
  /\ Len(s) = 36
  /\ \A i \in 1..36 :
       CASE i \in {9, 14, 19, 24} -> Char(s, i) = "-"
         [] i = 15 -> Char(s, i) = "4"
         [] i = 20 -> Char(s, i) \in {"8", "9", "a", "b", "A", "B"}
         [] OTHER -> IsHexChar(Char(s, i))

isValidUUID(uuid) ==
  IF TypeOf(uuid) # "string" THEN FALSE ELSE UuidRegexTest(uuid.v)

\* Buffer.toString('hex'): two lowercase digits per byte
RECURSIVE BytesToHex(_, _)
BytesToHex(bytes, i) ==
  IF i > Len(bytes) THEN ""
  ELSE (IF bytes[i] < 16 THEN "0" ELSE "") \o ToHex(bytes[i]) \o BytesToHex(bytes, i + 1)

\* bytes[i] = val on a Buffer (0-based index): a write past the end is ignored
SetByte(bytes, i, val) ==
  IF i + 1 \in DOMAIN bytes THEN [bytes EXCEPT ![i + 1] = val] ELSE bytes

\* bytes[i] on a Buffer (0-based index): undefined past the end, and
\* undefined & mask is 0
ByteAt(bytes, i) == IF i + 1 \in DOMAIN bytes THEN bytes[i + 1] ELSE 0

\* tier 2, lines 84-98: the candidate built from crypto.randomBytes(16)
CryptoCandidate(bytes) ==
  LET b6 == SetByte(bytes, 6, (ByteAt(bytes, 6) % 16) + 64)
      b8 == SetByte(b6, 8, (ByteAt(b6, 8) % 64) + 128)
      hex == BytesToHex(b8, 1)
  IN  Substring(hex, 0, 8) \o "-" \o Substring(hex, 8, 12) \o "-"
      \o Substring(hex, 12, 16) \o "-" \o Substring(hex, 16, 20) \o "-"
      \o Substring(hex, 20, 32)

\* the n-th value of Math.random() * 16 | 0 when the source yields the
\* cycle rs
RandomNibble(rs, n) == rs[((n - 1) % Len(rs)) + 1]

UuidTemplate == "xxxxxxxx-xxxx-4xxx-yxxx-xxxxxxxxxxxx"

RECURSIVE MathCandidateFrom(_, _, _)
\* tier 3, lines 121-125: replace every x and y of the template; n counts
\* the replacements already made
MathCandidateFrom(rs, i, n) ==
  IF i > Len(UuidTemplate) THEN ""
  ELSE LET c == Char(UuidTemplate, i)
           r == RandomNibble(rs, n + 1)
           v == IF c = "x" THEN r ELSE (r % 4) + 8
       IN  IF c \in {"x", "y"}
           THEN ToHex(v) \o MathCandidateFrom(rs, i + 1, n + 1)
           ELSE c \o MathCandidateFrom(rs, i + 1, n)

MathCandidate(rs) == MathCandidateFrom(rs, 1, 0)

\* one entry of the trace of tiers a call went through
TierStep(tier, outcome, candidate, message) ==
  [tier |-> tier, outcome |-> outcome, candidate |-> candidate, message |-> message]

\* the Math.random tier returning its candidate without validating it
MathTierUnvalidated(e, cryptoMessage) ==
  IF e.math.throws
  THEN [c |-> Throw(Err("All UUID fallback methods failed",
                        ("code" :> Str("FALLBACK_UUID_FAILURE"))
                        @@ ("cryptoError" :> Str(cryptoMessage))
                        @@ ("mathError" :> Str(e.math.message))
                        @@ ("timestamp" :> Str(NowISO)))),
        log |-> <<TierStep(3, "threw", Undef, e.math.message)>>]
  ELSE LET Served(mathRandomUuid) ==
             [c |-> Return(mathRandomUuid),
              log |-> <<TierStep(3, "ok", mathRandomUuid, "")>>]
       IN  Served(Str(MathCandidate(e.math.rs)))

\* lines 119-149: the Math.random tier; e is the behaviour of the random
\* sources during this call, cryptoMessage the message of the tier-2 error
MathTier(e, cryptoMessage) ==
  LET Failed(outcome, candidate, mathError) ==
        [c |-> Throw(Err("All UUID fallback methods failed",
                         ("code" :> Str("FALLBACK_UUID_FAILURE"))
                         @@ ("cryptoError" :> Str(cryptoMessage))
                         @@ ("mathError" :> Str(mathError))
                         @@ ("timestamp" :> Str(NowISO)))),
         log |-> <<TierStep(3, outcome, candidate, mathError)>>]
      Checked(mathRandomUuid) ==
        IF ~isValidUUID(mathRandomUuid)
        THEN Failed("invalid", mathRandomUuid,
                    "Math.random fallback generated invalid UUID: " \o mathRandomUuid.v)
        ELSE [c |-> Return(mathRandomUuid),
              log |-> <<TierStep(3, "ok", mathRandomUuid, "")>>]
  IN  IF e.math.throws THEN Failed("threw", Undef, e.math.message)
      ELSE Checked(Str(MathCandidate(e.math.rs)))

\* generateFallbackUUID going straight to Math.random
generateFallbackUUIDSkipsCrypto(e) == MathTier(e, "crypto skipped")

\* lines 80-151
generateFallbackUUID(e) ==
  LET Failed(outcome, candidate, cryptoError) ==
        LET Then(last) ==
              [c |-> last.c,
               log |-> <<TierStep(2, outcome, candidate, cryptoError)>> \o last.log]
        IN  Then(MathTier(e, cryptoError))
      Checked(fallbackUuid) ==
        IF ~isValidUUID(fallbackUuid)
        THEN Failed("invalid", fallbackUuid,
                    "Crypto fallback generated invalid UUID: " \o fallbackUuid.v)
        ELSE [c |-> Return(fallbackUuid),
              log |-> <<TierStep(2, "ok", fallbackUuid, "")>>]
  IN  IF e.crypto.throws THEN Failed("threw", Undef, e.crypto.message)
      ELSE Checked(Str(CryptoCandidate(e.crypto.bytes)))

\* lines 14-73
generateUUID(e) ==
  LET Failed(outcome, candidate, primaryError) ==
        LET Then(fb) ==
              [c |-> IF ~fb.c.threw THEN fb.c
                     ELSE Throw(Err("UUID generation system failure",
                                    ("code" :> Str("UUID_GENERATION_FAILURE"))
                                    @@ ("primaryError" :> Str(primaryError))
                                    @@ ("fallbackError" :> Str(fb.c.error.message))
                                    @@ ("timestamp" :> Str(NowISO)))),
               log |-> <<TierStep(1, outcome, candidate, primaryError)>> \o fb.log]
        IN  Then(generateFallbackUUID(e))
  IN  IF e.lib.throws THEN Failed("threw", Undef, e.lib.message)
      ELSE IF ~UuidRegexTest(StringOf(e.lib.value))
      THEN Failed("invalid", e.lib.value, "Generated UUID does not match v4 format")
      ELSE [c |-> Return(e.lib.value),
            log |-> <<TierStep(1, "ok", e.lib.value, "")>>]

(***************************************************************************)
(* Error classifier, lines 171-324.                                        *)
(***************************************************************************)
\* toolName === lit
Is(x, lit) == IsStr(x) /\ x.v = lit

\* lines 278-290
getEntityName(toolName) ==
  LET name == StringOf(toolName)
  IN  CASE name \in {"createReminder", "updateReminder"} -> "reminder"
        [] name \in {"createTask", "updateTask"} -> "task"
        [] name = "trackExpenses" -> "expense"
        [] name \in {"createGoal", "updateGoal"} -> "goal"
        [] name = "createJournalEntry" -> "journal entry"
        [] OTHER -> "item"

\* lines 297-309
getManualSection(toolName) ==
  LET name == StringOf(toolName)
  IN  CASE name \in {"createReminder", "updateReminder"} -> "Reminders"
        [] name \in {"createTask", "updateTask"} -> "Tasks"
        [] name = "trackExpenses" -> "Expenses"
        [] name \in {"createGoal", "updateGoal"} -> "Goals"
        [] name = "createJournalEntry" -> "Journal"
        [] OTHER -> "appropriate"

\* error.code === lit
HasCode(error, lit) == Is(Prop(error, "code"), lit)

\* lines 205-236
getUserFriendlyErrorMessage(toolName, error) ==
  IF HasCode(error, "UUID_GENERATION_FAILURE")
  THEN "Unable to create " \o getEntityName(toolName)
       \o " due to system error. Please try again."
  ELSE IF HasCode(error, "INVALID_UUID_FORMAT")
  THEN "System error occurred while creating " \o getEntityName(toolName)
       \o ". Please try again."
  ELSE CASE Is(toolName, "createReminder") ->
              "Unable to create reminder. Please check your input and try again."
         [] Is(toolName, "createTask") ->
              "Unable to create task. Please check your input and try again."
         [] Is(toolName, "trackExpenses") ->
              "Unable to track expenses. Please check your input and try again."
         [] Is(toolName, "createGoal") ->
              "Unable to create goal. Please check your input and try again."
         [] Is(toolName, "createJournalEntry") ->
              "Unable to create journal entry. Please check your input and try again."
         [] Is(toolName, "updateReminder") -> "Unable to update reminder. Please try again."
         [] Is(toolName, "updateTask") -> "Unable to update task. Please try again."
         [] Is(toolName, "updateGoal") -> "Unable to update goal. Please try again."
         [] OTHER -> "An error occurred while processing your request. Please try again."

\* getSuggestedAction answering with its default sentence for every tool
getSuggestedActionGeneric(toolName, error) ==
  "Please try the operation again or contact support if the issue persists."

\* lines 244-271
getSuggestedAction(toolName, error) ==
  IF HasCode(error, "UUID_GENERATION_FAILURE") \/ HasCode(error, "INVALID_UUID_FORMAT")
  THEN "Try creating the " \o getEntityName(toolName) \o " manually in the "
       \o getManualSection(toolName) \o " section."
  ELSE CASE Is(toolName, "createReminder") ->
              "Try creating the reminder manually in the Reminders section."
         [] Is(toolName, "createTask") ->
              "Try creating the task manually in the Tasks section."
         [] Is(toolName, "trackExpenses") ->
              "Try adding the expense manually in the Expenses section."
         [] Is(toolName, "createGoal") ->
              "Try creating the goal manually in the Goals section."
         [] Is(toolName, "createJournalEntry") ->
              "Try creating the journal entry manually in the Journal section."
         [] Is(toolName, "updateReminder") ->
              "Try updating the reminder manually in the Reminders section."
         [] Is(toolName, "updateTask") ->
              "Try updating the task manually in the Tasks section."
         [] Is(toolName, "updateGoal") ->
              "Try updating the goal manually in the Goals section."
         [] OTHER -> "Please try the operation again or contact support if the issue persists."

\* isRetryableError looking at the message only
isRetryableErrorByMessage(error) == Includes(error.message, "timeout")

\* lines 316-324
isRetryableError(error) ==
  \/ \E code \in {"UUID_GENERATION_FAILURE", "NETWORK_ERROR", "TIMEOUT_ERROR",
                  "TEMPORARY_FAILURE"} : HasCode(error, code)
  \/ Includes(error.message, "timeout")

\* lines 171-197; the stack is left out of the response unless NODE_ENV is
\* 'development'
createToolErrorResponse(toolName, error, params) ==
  Obj(("error" :> Bool(TRUE))
      @@ ("tool" :> toolName)
      @@ ("message" :> Str(getUserFriendlyErrorMessage(toolName, error)))
      @@ ("technicalDetails" :>
            Obj(("errorMessage" :> Str(error.message))
                @@ ("errorCode" :> OrElse(Prop(error, "code"), Str("UNKNOWN_ERROR")))
                @@ ("timestamp" :> Str(NowISO))
                @@ ("parameters" :> params)
                @@ ("stack" :> Undef)))
      @@ ("suggestedAction" :> Str(getSuggestedAction(toolName, error)))
      @@ ("retryable" :> Bool(isRetryableError(error))))

(***************************************************************************)
(* Tool executors, lines 711-1218.  es is the behaviour of the random      *)
(* sources at the successive generateUUID calls of one tool call; a tool   *)
(* completion carries mints, the completions of the generateUUID calls it  *)
(* made, in call order.                                                    *)
(***************************************************************************)
Done(c, mints) == [c |-> c, mints |-> mints]

\* new Error(message) with error.code = code
Coded(message, code) == Err(message, ("code" :> Str(code)))

\* the catch block of every executor: error.tool = ...; error.params = ...;
\* throw error
Rethrow(r, tool, params) ==
  IF r.c.threw
  THEN Done(Throw(Err(r.c.error.message,
                      ("tool" :> Str(tool)) @@ ("params" :> params) @@ r.c.error.props)),
            r.mints)
  ELSE r

\* x.trim(): a TypeError when x is not a string
CallTrim(x, what) ==
  IF IsStr(x) THEN Return(Str(Trim(x.v)))
  ELSE Throw(Err(what \o ".trim is not a function", EmptyFn))

\* !x || typeof x !== 'string'
NotAString(x) == ~Truthy(x) \/ TypeOf(x) # "string"

IsDigit(c) == c \in {"0", "1", "2", "3", "4", "5", "6", "7", "8", "9"}

\* the two-digit number at s[i..i+1]
TwoDigits(s, i) ==
  10 * (IndexFrom("0123456789", Char(s, i), 1) - 1)
  + (IndexFrom("0123456789", Char(s, i + 1), 1) - 1)

\* !isNaN(new Date(x).getTime()) for the strings the model feeds: an ISO
\* date YYYY-MM-DD, alone or followed by a T and a time, is a date; any
\* other text is not
DateStringParses(s) ==
  /\ Len(s) >= 10
  /\ \A i \in {1, 2, 3, 4, 6, 7, 9, 10} : IsDigit(Char(s, i))
  /\ Char(s, 5) = "-" /\ Char(s, 8) = "-"
  /\ TwoDigits(s, 6) \in 1..12
  /\ TwoDigits(s, 9) \in 1..31
  /\ (Len(s) = 10 \/ Char(s, 11) = "T")

\* !isNaN(new Date(x).getTime()): a number is a time value, true is 1 ms,
\* an object or array goes through its string form
DateIsValid(x) ==
  CASE x.k = "string" -> DateStringParses(x.v)
    [] x.k = "number" -> TRUE
    [] x.k = "boolean" -> TRUE
    [] OTHER -> DateStringParses(StringOf(x))

\* lines 711-758
executeCreateTaskBody(params, es) ==
  IF NotAString(Get(params, "description"))
  THEN Done(Throw(Coded("Task description is required and must be a string",
                        "INVALID_PARAMETERS")), <<>>)
  ELSE LET Minted(g) ==
           LET taskId == g.c.value
           IN
           IF g.c.threw THEN Done(Throw(g.c.error), <<g>>)
           ELSE IF ~isValidUUID(taskId)
           THEN Done(Throw(Coded("Generated task ID is invalid", "INVALID_TASK_ID")), <<g>>)
           ELSE Done(Return(Obj(
                  ("actionMetadata" :>
                     Obj(("tool" :> Str("createTask"))
                         @@ ("description" :> Str(Trim(Get(params, "description").v)))
                         @@ ("priority" :> OrElse(Get(params, "priority"), Str("medium")))
                         @@ ("due_date" :> Get(params, "dueDate"))
                         @@ ("task_id" :> taskId)))
                  @@ ("contextItemId" :> taskId)
                  @@ ("contextItemType" :> Str("task"))
                  @@ ("updatedItemType" :> Str("task"))
                  @@ ("actionIcon" :> Str("task")))), <<g>>)
       IN  Minted(generateUUID(es[1]))

executeCreateTask(params, es) ==
  Rethrow(executeCreateTaskBody(params, es), "createTask", params)

\* the shared checks with the updates object examined before the id format
UpdatePrefixChecksUpdatesFirst(params, idKey, missing, formatError) ==
  LET Checked(id, updates) ==
        IF NotAString(id) THEN Throw(missing)
        ELSE IF ~Truthy(updates) \/ TypeOf(updates) # "object"
        THEN Throw(Coded("Update data is required", "MISSING_UPDATE_DATA"))
        ELSE IF ~isValidUUID(id) THEN Throw(formatError)
        ELSE Return(Obj(("id" :> id) @@ ("updates" :> updates)))
  IN  Checked(OrElse(Get(params, idKey), Get(params, "id")),
              OrElse(Get(params, "updates"), params))

\* the checks the three update executors share (lines 763-782, 871-890,
\* 1076-1095): the id, its format, the updates object
UpdatePrefix(params, idKey, missing, formatError) ==
  LET Checked(id, updates) ==
        IF NotAString(id) THEN Throw(missing)
        ELSE IF ~isValidUUID(id) THEN Throw(formatError)
        ELSE IF ~Truthy(updates) \/ TypeOf(updates) # "object"
        THEN Throw(Coded("Update data is required", "MISSING_UPDATE_DATA"))
        ELSE Return(Obj(("id" :> id) @@ ("updates" :> updates)))
  IN  Checked(OrElse(Get(params, idKey), Get(params, "id")),
              OrElse(Get(params, "updates"), params))

\* the result object of an update executor that names the entity in
\* actionMetadata only
UpdateResultWithoutContext(tool, idField, type, id, updates) ==
  Obj(("actionMetadata" :>
         Obj(("tool" :> Str(tool)) @@ (idField :> id) @@ ("updates" :> updates)))
      @@ ("contextItemType" :> Str(type))
      @@ ("updatedItemType" :> Str(type))
      @@ ("actionIcon" :> Str("edit")))

\* the result object of the three update executors
UpdateResult(tool, idField, type, id, updates) ==
  Obj(("actionMetadata" :>
         Obj(("tool" :> Str(tool)) @@ (idField :> id) @@ ("updates" :> updates)))
      @@ ("contextItemId" :> id)
      @@ ("contextItemType" :> Str(type))
      @@ ("updatedItemType" :> Str(type))
      @@ ("actionIcon" :> Str("edit")))

\* executeUpdateTask minting a fresh identifier for the task it updates
executeUpdateTaskMints(params, es) ==
  LET Checked(pre, g) ==
        IF pre.threw THEN Done(pre, <<>>)
        ELSE IF g.c.threw THEN Done(Throw(g.c.error), <<g>>)
        ELSE Done(Return(UpdateResult("updateTask", "task_id", "task",
                                      g.c.value, Get(pre.value, "updates"))), <<g>>)
  IN  Checked(UpdatePrefix(params, "taskId",
                           Coded("Task ID is required for updates", "MISSING_TASK_ID"),
                           Coded("Invalid task ID format", "INVALID_TASK_ID_FORMAT")),
              generateUUID(es[1]))

\* lines 760-808
executeUpdateTaskBody(params, es) ==
  LET Checked(pre) ==
        IF pre.threw THEN Done(pre, <<>>)
        ELSE Done(Return(UpdateResult("updateTask", "task_id", "task",
                                      Get(pre.value, "id"), Get(pre.value, "updates"))),
                  <<>>)
  IN  Checked(UpdatePrefix(params, "taskId",
                           Coded("Task ID is required for updates", "MISSING_TASK_ID"),
                           Coded("Invalid task ID format", "INVALID_TASK_ID_FORMAT")))

executeUpdateTask(params, es) ==
  Rethrow(executeUpdateTaskBody(params, es), "updateTask", params)

\* lines 810-866
executeCreateReminderBody(params, es) ==
  IF NotAString(Get(params, "title"))
  THEN Done(Throw(Coded("Reminder title is required and must be a string",
                        "INVALID_PARAMETERS")), <<>>)
  ELSE IF Truthy(Get(params, "scheduledTime")) /\ ~DateIsValid(Get(params, "scheduledTime"))
  THEN Done(Throw(Coded("Invalid scheduled time format", "INVALID_SCHEDULED_TIME")), <<>>)
  ELSE LET Minted(g, description) ==
           LET reminderId == g.c.value
           IN
           IF g.c.threw THEN Done(Throw(g.c.error), <<g>>)
           ELSE IF ~isValidUUID(reminderId)
           THEN Done(Throw(Coded("Generated reminder ID is invalid", "INVALID_REMINDER_ID")),
                     <<g>>)
           ELSE IF description.threw THEN Done(description, <<g>>)
           ELSE Done(Return(Obj(
                  ("actionMetadata" :>
                     Obj(("tool" :> Str("createReminder"))
                         @@ ("title" :> Str(Trim(Get(params, "title").v)))
                         @@ ("description" :> description.value)
                         @@ ("scheduled_time" :> Get(params, "scheduledTime"))
                         @@ ("reminder_id" :> reminderId)))
                  @@ ("contextItemId" :> reminderId)
                  @@ ("contextItemType" :> Str("reminder"))
                  @@ ("updatedItemType" :> Str("reminder"))
                  @@ ("actionIcon" :> Str("notifications")))), <<g>>)
       IN  Minted(generateUUID(es[1]),
                  IF Truthy(Get(params, "description"))
                  THEN CallTrim(Get(params, "description"), "params.description")
                  ELSE Return(Null))

executeCreateReminder(params, es) ==
  Rethrow(executeCreateReminderBody(params, es), "createReminder", params)

\* lines 868-926
executeUpdateReminderBody(params, es) ==
  LET Checked(pre) ==
        LET updates == Get(pre.value, "updates")
        IN  IF pre.threw THEN Done(pre, <<>>)
            ELSE IF Truthy(Get(updates, "scheduledTime"))
                    /\ ~DateIsValid(Get(updates, "scheduledTime"))
            THEN Done(Throw(Coded("Invalid scheduled time format in updates",
                                  "INVALID_SCHEDULED_TIME")), <<>>)
            ELSE Done(Return(UpdateResult("updateReminder", "reminder_id", "reminder",
                                          Get(pre.value, "id"), updates)), <<>>)
  IN  Checked(UpdatePrefix(params, "reminderId",
                Coded("Reminder ID is required for updates", "MISSING_REMINDER_ID"),
                Coded("Invalid reminder ID format", "INVALID_REMINDER_ID_FORMAT")))

executeUpdateReminder(params, es) ==
  Rethrow(executeUpdateReminderBody(params, es), "updateReminder", params)

\* expense.item of a value that may be null: reading a property of null or
\* undefined is a TypeError
ReadItem(expense) ==
  IF IsNullish(expense)
  THEN Throw(Err("Cannot read properties of " \o StringOf(expense) \o " (reading 'item')",
                 EmptyFn))
  ELSE Return(Get(expense, "item"))

RECURSIVE TrackLoop(_, _, _, _, _)
\* the loop leaving an invalid expense out instead of failing the batch
TrackLoopSkipsInvalid(expenses, i, es, validated, mints) ==
  IF i > Len(expenses) THEN Done(Return(Arr(validated)), mints)
  ELSE LET Step(expense, item, amount, g) ==
             IF item.threw \/ NotAString(item.value)
                \/ ~Truthy(amount) \/ TypeOf(amount) # "number" \/ amount.v <= 0
             THEN TrackLoop(expenses, i + 1, es, validated, mints)
             ELSE IF g.c.threw THEN Done(Throw(g.c.error), mints \o <<g>>)
             ELSE TrackLoop(expenses, i + 1, es,
                            validated \o <<Obj(("expense_id" :> g.c.value)
                                               @@ ("item" :> Str(Trim(item.value.v)))
                                               @@ expense.v)>>,
                            mints \o <<g>>)
       IN  Step(expenses[i], ReadItem(expenses[i]), Get(expenses[i], "amount"),
                generateUUID(es[Len(mints) + 1]))

\* lines 943-975: the loop over expenses[i] (1-based here); validated and
\* mints are what the earlier iterations produced
TrackLoop(expenses, i, es, validated, mints) ==
  IF i > Len(expenses) THEN Done(Return(Arr(validated)), mints)
  ELSE LET Step(expense, item, amount, g) ==
           LET expenseId == g.c.value
           IN
           IF item.threw THEN Done(item, mints)
           ELSE IF NotAString(item.value)
           THEN Done(Throw(Coded("Expense " \o NatToString(i)
                                 \o ": Item name is required and must be a string",
                                 "INVALID_EXPENSE_ITEM")), mints)
           ELSE IF ~Truthy(amount) \/ TypeOf(amount) # "number" \/ amount.v <= 0
           THEN Done(Throw(Coded("Expense " \o NatToString(i)
                                 \o ": Amount must be a positive number",
                                 "INVALID_EXPENSE_AMOUNT")), mints)
           ELSE IF g.c.threw THEN Done(Throw(g.c.error), mints \o <<g>>)
           ELSE IF ~isValidUUID(expenseId)
           THEN Done(Throw(Coded("Generated expense ID " \o NatToString(i) \o " is invalid",
                                 "INVALID_EXPENSE_ID")), mints \o <<g>>)
           ELSE TrackLoop(expenses, i + 1, es,
                          validated \o <<Obj(("expense_id" :> expenseId)
                                             @@ ("item" :> Str(Trim(item.value.v)))
                                             @@ expense.v)>>,
                          mints \o <<g>>)
       IN  Step(expenses[i], ReadItem(expenses[i]), Get(expenses[i], "amount"),
                generateUUID(es[Len(mints) + 1]))

\* the total taken from one expense only
SumAmountsOfOne(validated, i) ==
  IF i > Len(validated) THEN 0 ELSE Get(validated[i], "amount").v

RECURSIVE SumAmounts(_, _)
\* validatedExpenses.reduce((sum, exp) => sum + exp.amount, 0)
SumAmounts(validated, i) ==
  IF i > Len(validated) THEN 0
  ELSE Get(validated[i], "amount").v + SumAmounts(validated, i + 1)

\* lines 928-1007
executeTrackExpensesBody(params, es) ==
  LET Looped(loop) ==
        LET validatedExpenses == loop.c.value.v
        IN
        IF loop.c.threw THEN loop
        ELSE Done(Return(Obj(
             ("actionMetadata" :>
                Obj(("tool" :> Str("trackExpenses"))
                    @@ ("expenses" :> Arr(validatedExpenses))
                    @@ ("total_amount" :> Num(SumAmounts(validatedExpenses, 1)))))
             @@ ("multipleActions" :>
                   Arr([i \in 1..Len(validatedExpenses) |->
                          Obj(("type" :> Str("expense"))
                              @@ ("id" :> Get(validatedExpenses[i], "expense_id"))
                              @@ ("data" :> validatedExpenses[i]))]))
             @@ ("updatedItemType" :> Str("expense"))
             @@ ("actionIcon" :> Str("receipt")))), loop.mints)
      Normalized(expenses) ==
        IF Len(expenses) = 0
        THEN Done(Throw(Coded("At least one expense is required",
                              "NO_EXPENSES_PROVIDED")), <<>>)
        ELSE Looped(TrackLoop(expenses, 1, es, <<>>, <<>>))
  IN  Normalized(IF IsArr(Get(params, "expenses")) THEN Get(params, "expenses").v
                 ELSE <<params>>)

executeTrackExpenses(params, es) ==
  Rethrow(executeTrackExpensesBody(params, es), "trackExpenses", params)

\* x !== undefined && (typeof x !== 'number' || x <= 0), or with x < 0 when
\* zero is allowed
BadNumber(x, zeroAllowed) ==
  /\ x.k # "undefined"
  /\ \/ TypeOf(x) # "number"
     \/ IF zeroAllowed THEN x.v < 0 ELSE x.v <= 0

\* lines 1011-1030: the parameter checks of executeCreateGoal
CreateGoalValidation(params) ==
  IF NotAString(Get(params, "title"))
  THEN Throw(Coded("Goal title is required and must be a string", "INVALID_PARAMETERS"))
  ELSE IF BadNumber(Get(params, "target"), FALSE)
  THEN Throw(Coded("Goal target must be a positive number", "INVALID_GOAL_TARGET"))
  ELSE IF BadNumber(Get(params, "progress"), TRUE)
  THEN Throw(Coded("Goal progress must be a non-negative number", "INVALID_GOAL_PROGRESS"))
  ELSE Return(Undef)

\* lines 1032-1065: the identifier and the result of executeCreateGoal
CreateGoalResult(params, es) ==
  LET Minted(g, description) ==
      LET goalId == g.c.value
      IN
      IF g.c.threw THEN Done(Throw(g.c.error), <<g>>)
      ELSE IF ~isValidUUID(goalId)
      THEN Done(Throw(Coded("Generated goal ID is invalid", "INVALID_GOAL_ID")), <<g>>)
      ELSE IF description.threw THEN Done(description, <<g>>)
      ELSE Done(Return(Obj(
             ("actionMetadata" :>
                Obj(("tool" :> Str("createGoal"))
                    @@ ("title" :> Str(Trim(Get(params, "title").v)))
                    @@ ("description" :> description.value)
                    @@ ("target" :> Get(params, "target"))
                    @@ ("progress" :> OrElse(Get(params, "progress"), Num(0)))
                    @@ ("goal_id" :> goalId)))
             @@ ("contextItemId" :> goalId)
             @@ ("contextItemType" :> Str("goal"))
             @@ ("updatedItemType" :> Str("goal"))
             @@ ("actionIcon" :> Str("flag")))), <<g>>)
  IN  Minted(generateUUID(es[1]),
             IF Truthy(Get(params, "description"))
             THEN CallTrim(Get(params, "description"), "params.description")
             ELSE Return(Null))

\* lines 1009-1071
executeCreateGoalBody(params, es) ==
  LET Checked(checks) ==
        IF checks.threw THEN Done(checks, <<>>) ELSE CreateGoalResult(params, es)
  IN  Checked(CreateGoalValidation(params))

executeCreateGoal(params, es) ==
  Rethrow(executeCreateGoalBody(params, es), "createGoal", params)

\* lines 1073-1135
executeUpdateGoalBody(params, es) ==
  LET Checked(pre) ==
        LET updates == Get(pre.value, "updates")
        IN  IF pre.threw THEN Done(pre, <<>>)
            ELSE IF BadNumber(Get(updates, "target"), FALSE)
            THEN Done(Throw(Coded("Goal target must be a positive number",
                                  "INVALID_GOAL_TARGET")), <<>>)
            ELSE IF BadNumber(Get(updates, "progress"), TRUE)
            THEN Done(Throw(Coded("Goal progress must be a non-negative number",
                                  "INVALID_GOAL_PROGRESS")), <<>>)
            ELSE Done(Return(UpdateResult("updateGoal", "goal_id", "goal",
                                          Get(pre.value, "id"), updates)), <<>>)
  IN  Checked(UpdatePrefix(params, "goalId",
                Coded("Goal ID is required for updates", "MISSING_GOAL_ID"),
                Coded("Invalid goal ID format", "INVALID_GOAL_ID_FORMAT")))

executeUpdateGoal(params, es) ==
  Rethrow(executeUpdateGoalBody(params, es), "updateGoal", params)

\* lines 1137-1189
executeCreateJournalEntryBody(params, es) ==
  IF NotAString(Get(params, "content"))
  THEN Done(Throw(Coded("Journal entry content is required and must be a string",
                        "INVALID_PARAMETERS")), <<>>)
  ELSE IF Truthy(Get(params, "mood")) /\ TypeOf(Get(params, "mood")) # "string"
  THEN Done(Throw(Coded("Journal entry mood must be a string", "INVALID_MOOD_FORMAT")),
            <<>>)
  ELSE LET Minted(g) ==
           LET entryId == g.c.value
           IN
           IF g.c.threw THEN Done(Throw(g.c.error), <<g>>)
           ELSE IF ~isValidUUID(entryId)
           THEN Done(Throw(Coded("Generated journal entry ID is invalid",
                                 "INVALID_ENTRY_ID")), <<g>>)
           ELSE Done(Return(Obj(
                  ("actionMetadata" :>
                     Obj(("tool" :> Str("createJournalEntry"))
                         @@ ("content" :> Str(Trim(Get(params, "content").v)))
                         @@ ("mood" :> IF Truthy(Get(params, "mood"))
                                       THEN Str(Trim(Get(params, "mood").v)) ELSE Null)
                         @@ ("entry_id" :> entryId)))
                  @@ ("contextItemId" :> entryId)
                  @@ ("contextItemType" :> Str("journal"))
                  @@ ("updatedItemType" :> Str("journal"))
                  @@ ("actionIcon" :> Str("book")))), <<g>>)
       IN  Minted(generateUUID(es[1]))

executeCreateJournalEntry(params, es) ==
  Rethrow(executeCreateJournalEntryBody(params, es), "createJournalEntry", params)

\* lines 1191-1218
executeGeneralChat(params, es) ==
  Done(Return(Obj(
         ("actionMetadata" :>
            Obj(("tool" :> Str("generalChat"))
                @@ ("tone" :> OrElse(Get(params, "tone"), Str("neutral")))
                @@ ("response" :> OrElse(Get(params, "response"), Str("")))))
         @@ ("actionIcon" :> Str("chat")))), <<>>)

(***************************************************************************)
(* Tool dispatcher, lines 620-708.                                         *)
(***************************************************************************)
\* the switch of lines 645-677
DispatchTool(toolName, toolParams, es) ==
  CASE Is(toolName, "createTask") -> executeCreateTask(toolParams, es)
    [] Is(toolName, "updateTask") -> executeUpdateTask(toolParams, es)
    [] Is(toolName, "createReminder") -> executeCreateReminder(toolParams, es)
    [] Is(toolName, "updateReminder") -> executeUpdateReminder(toolParams, es)
    [] Is(toolName, "trackExpenses") -> executeTrackExpenses(toolParams, es)
    [] Is(toolName, "createGoal") -> executeCreateGoal(toolParams, es)
    [] Is(toolName, "updateGoal") -> executeUpdateGoal(toolParams, es)
    [] Is(toolName, "createJournalEntry") -> executeCreateJournalEntry(toolParams, es)
    [] Is(toolName, "generalChat") -> executeGeneralChat(toolParams, es)
    [] OTHER -> Done(Throw(Coded("Unknown tool: " \o StringOf(toolName), "UNKNOWN_TOOL")),
                     <<>>)

\* executeToolIfNeeded without its catch block
executeToolIfNeededNoCatch(parsedResponse, es) ==
  LET Ran(body) == [c |-> body.c, mints |-> body.mints, ran |-> TRUE, body |-> body.c]
      Named(toolName, toolParams) ==
        IF ~Truthy(toolName) \/ ~Truthy(toolParams)
        THEN [c |-> Return(Obj(EmptyFn)), mints |-> <<>>, ran |-> FALSE,
              body |-> Return(Undef)]
        ELSE Ran(DispatchTool(toolName, toolParams, es))
  IN  Named(OrElse(Get(parsedResponse, "tool"), Get(parsedResponse, "selectedTool")),
            OrElse(Get(parsedResponse, "toolParams"), Get(parsedResponse, "parameters")))

\* lines 620-708.  Besides the fragment it returns (c), the completion
\* records the generateUUID calls made (mints), whether a tool was
\* dispatched (ran) and how the dispatched executor completed (body)
executeToolIfNeeded(parsedResponse, es) ==
  LET Ran(toolName, toolParams, body) ==
        IF body.c.threw
        THEN [c |-> Return(Obj("errorDetails" :>
                                 createToolErrorResponse(toolName, body.c.error, toolParams))),
              mints |-> body.mints, ran |-> TRUE, body |-> body.c]
        ELSE [c |-> body.c, mints |-> body.mints, ran |-> TRUE, body |-> body.c]
      Named(toolName, toolParams) ==
        IF ~Truthy(toolName) \/ ~Truthy(toolParams)
        THEN [c |-> Return(Obj(EmptyFn)), mints |-> <<>>, ran |-> FALSE,
              body |-> Return(Undef)]
        ELSE Ran(toolName, toolParams, DispatchTool(toolName, toolParams, es))
  IN  Named(OrElse(Get(parsedResponse, "tool"), Get(parsedResponse, "selectedTool")),
            OrElse(Get(parsedResponse, "toolParams"), Get(parsedResponse, "parameters")))

(***************************************************************************)
(* JSON.parse, on the characters of the text.  A parse step yields         *)
(* [ok, val, next]: whether a value was read, the value, and the position  *)
(* after it.  Numbers are integers and strings use the escapes \" \\ \/    *)
(* \n \t \r only: the replies the model feeds hold nothing else.           *)
(***************************************************************************)
ParseFail == [ok |-> FALSE, val |-> Undef, next |-> 0]
Parsed(val, next) == [ok |-> TRUE, val |-> val, next |-> next]

RECURSIVE SkipWs(_, _)
\* the first position at or after i that holds no white space
SkipWs(s, i) ==
  IF i <= Len(s) /\ IsSpace(Char(s, i)) THEN SkipWs(s, i + 1) ELSE i

\* the number of backslashes that end just before position j and start at
\* position i or later
BackslashRun(s, i, j) ==
  SetMax({k \in 0..(j - i) : \A m \in 1..k : Char(s, j - m) = "\\"})

\* position j holds a quote that no backslash escapes, in a string literal
\* whose content starts at position i
ClosesAt(s, i, j) == Char(s, j) = "\"" /\ BackslashRun(s, i, j) % 2 = 0

\* the position of the quote that closes the string literal whose content
\* starts at position i: the first quote that no backslash escapes; 0 when
\* there is none
ClosingQuote(s, i) ==
  IF \E j \in i..Len(s) : ClosesAt(s, i, j)
  THEN CHOOSE j \in i..Len(s) : ClosesAt(s, i, j) /\ \A m \in i..(j - 1) : ~ClosesAt(s, i, m)
  ELSE 0

RECURSIVE Unescape(_)
\* the text a string literal's content stands for: [ok, text]
Unescape(raw) ==
  LET Escaped(b, d, rest) ==
        IF ~rest.ok THEN rest
        ELSE CASE d \in {"\"", "\\", "/"} ->
                    [ok |-> TRUE, text |-> SubSeq(raw, 1, b - 1) \o d \o rest.text]
               [] d = "n" -> [ok |-> TRUE, text |-> SubSeq(raw, 1, b - 1) \o "\n" \o rest.text]
               [] d = "t" -> [ok |-> TRUE, text |-> SubSeq(raw, 1, b - 1) \o "\t" \o rest.text]
               [] d = "r" -> [ok |-> TRUE, text |-> SubSeq(raw, 1, b - 1) \o "\r" \o rest.text]
               [] OTHER -> [ok |-> FALSE, text |-> ""]
      At(b) ==
        IF b = 0 THEN [ok |-> TRUE, text |-> raw]
        ELSE Escaped(b, Char(raw, b + 1), Unescape(SubSeq(raw, b + 2, Len(raw))))
  IN  At(IndexFrom(raw, "\\", 1))

\* a string literal whose content starts at position i: no raw line break
\* or tab inside, the escapes decoded
ScanString(s, i) ==
  LET Decoded(end, text) ==
        IF ~text.ok THEN ParseFail ELSE Parsed(Str(text.text), end + 1)
      Closed(end) ==
        IF end = 0 THEN ParseFail
        ELSE IF \E j \in i..(end - 1) : Char(s, j) \in {"\n", "\t", "\r"} THEN ParseFail
        ELSE Decoded(end, Unescape(SubSeq(s, i, end - 1)))
  IN  Closed(ClosingQuote(s, i))

RECURSIVE ScanDigits(_, _, _)
\* the digits from position i, acc being the number read so far
ScanDigits(s, i, acc) ==
  IF i <= Len(s) /\ IsDigit(Char(s, i))
  THEN ScanDigits(s, i + 1, 10 * acc + (IndexFrom("0123456789", Char(s, i), 1) - 1))
  ELSE Parsed(Num(acc), i)

\* a number at position i: -?(0|[1-9][0-9]*)
ParseNumber(s, i) ==
  LET Signed(neg, j, digits) ==
        IF j > Len(s) \/ ~IsDigit(Char(s, j)) THEN ParseFail
        ELSE IF Char(s, j) = "0" /\ digits.next > j + 1 THEN ParseFail
        ELSE IF neg THEN Parsed(Num(0 - digits.val.v), digits.next)
        ELSE digits
  IN  IF Char(s, i) = "-" THEN Signed(TRUE, i + 1, ScanDigits(s, i + 1, 0))
      ELSE Signed(FALSE, i, ScanDigits(s, i, 0))

RECURSIVE ParseValue(_, _)
RECURSIVE ParseMembers(_, _, _)
RECURSIVE ParseElements(_, _, _)

\* the members of an object from position i (after "{" or ","), acc being
\* the properties read so far; a repeated key keeps its last value
ParseMembers(s, i, acc) ==
  LET Rest(key, val, after) ==
        IF Char(s, after) = "}"
        THEN Parsed(Obj(Put(acc, key.val.v, val.val)), after + 1)
        ELSE IF Char(s, after) = ","
        THEN ParseMembers(s, after + 1, Put(acc, key.val.v, val.val))
        ELSE ParseFail
      Valued(key, val) == IF ~val.ok THEN ParseFail ELSE Rest(key, val, SkipWs(s, val.next))
      Coloned(key, colon) ==
        IF Char(s, colon) # ":" THEN ParseFail ELSE Valued(key, ParseValue(s, colon + 1))
      Keyed(key) == IF ~key.ok THEN ParseFail ELSE Coloned(key, SkipWs(s, key.next))
      At(k) == IF Char(s, k) = "\"" THEN Keyed(ScanString(s, k + 1)) ELSE ParseFail
  IN  At(SkipWs(s, i))

\* the elements of an array from position i (after "[" or ","), acc being
\* the elements read so far
ParseElements(s, i, acc) ==
  LET Rest(val, after) ==
        IF Char(s, after) = "]" THEN Parsed(Arr(Append(acc, val.val)), after + 1)
        ELSE IF Char(s, after) = "," THEN ParseElements(s, after + 1, Append(acc, val.val))
        ELSE ParseFail
      Valued(val) == IF ~val.ok THEN ParseFail ELSE Rest(val, SkipWs(s, val.next))
  IN  Valued(ParseValue(s, i))

\* a JSON value at or after position i
ParseValue(s, i) ==
  LET Opened(j, inner) ==
        IF Char(s, j) = "{"
        THEN IF Char(s, inner) = "}" THEN Parsed(Obj(EmptyFn), inner + 1)
             ELSE ParseMembers(s, j + 1, EmptyFn)
        ELSE IF Char(s, inner) = "]" THEN Parsed(Arr(<<>>), inner + 1)
             ELSE ParseElements(s, j + 1, <<>>)
      At(j, c) ==
        CASE c \in {"{", "["} -> Opened(j, SkipWs(s, j + 1))
          [] c = "\"" -> ScanString(s, j + 1)
          [] c = "-" \/ IsDigit(c) -> ParseNumber(s, j)
          [] Slice(s, j, j + 3) = "true" -> Parsed(Bool(TRUE), j + 4)
          [] Slice(s, j, j + 4) = "false" -> Parsed(Bool(FALSE), j + 5)
          [] Slice(s, j, j + 3) = "null" -> Parsed(Null, j + 4)
          [] OTHER -> ParseFail
      Start(j) == At(j, Char(s, j))
  IN  Start(SkipWs(s, i))

\* JSON.parse(text): one value, then nothing but white space; a SyntaxError
\* otherwise
JSONParse(text) ==
  LET Ended(val) ==
        IF val.ok /\ SkipWs(text, val.next) > Len(text) THEN Return(val.val)
        ELSE Throw(Err("Unexpected token in JSON", EmptyFn))
  IN  Ended(ParseValue(text, 1))

(***************************************************************************)
(* Response parser, lines 581-617.                                         *)
(***************************************************************************)
\* s.lastIndexOf(c) searching down from position i; 0 when c does not occur
LastIndexFrom(s, c, i) ==
  IF \E j \in 1..i : Char(s, j) = c
  THEN CHOOSE j \in 1..i : Char(s, j) = c /\ \A m \in (j + 1)..i : Char(s, m) # c
  ELSE 0

\* aiMessage.match(/\{[\s\S]*?\}/), the lazy match: the text from the first
\* "{" to the first "}" after it
MatchBracesLazy(aiMessage) ==
  LET Span(first, last) ==
        IF first # 0 /\ last > first THEN Str(SubSeq(aiMessage, first, last)) ELSE Undef
      From(first) == Span(first, IF first = 0 THEN 0 ELSE IndexFrom(aiMessage, "}", first))
  IN  From(IndexFrom(aiMessage, "{", 1))

\* aiMessage.match(/\{[\s\S]*\}/): the text from the first "{" to the last
\* "}" after it, or null (Undef here) when there is none
MatchBraces(aiMessage) ==
  LET Span(first, last) ==
        IF first # 0 /\ last > first THEN Str(SubSeq(aiMessage, first, last)) ELSE Undef
  IN  Span(IndexFrom(aiMessage, "{", 1), LastIndexFrom(aiMessage, "}", Len(aiMessage)))

\* lines 607-616
PlainTextResponse(aiMessage) ==
  Obj(("aiResponseText" :> Str(aiMessage))
      @@ ("actionMetadata" :> Null)
      @@ ("contextItemId" :> Null)
      @@ ("contextItemType" :> Null)
      @@ ("updatedItemType" :> Null)
      @@ ("actionIcon" :> Null)
      @@ ("multipleActions" :> Null)
      @@ ("errorDetails" :> Null))

\* toolResult.<field> || parsed.<field> || null
Merged(toolResult, parsed, field) ==
  OrElse(OrElse(Get(toolResult, field), Get(parsed, field)), Null)

\* lines 591-600
StructuredResponse(aiMessage, parsed, toolResult) ==
  Obj(("aiResponseText" :> OrElse(Get(parsed, "aiResponseText"), Str(aiMessage)))
      @@ ("actionMetadata" :> Merged(toolResult, parsed, "actionMetadata"))
      @@ ("contextItemId" :> Merged(toolResult, parsed, "contextItemId"))
      @@ ("contextItemType" :> Merged(toolResult, parsed, "contextItemType"))
      @@ ("updatedItemType" :> Merged(toolResult, parsed, "updatedItemType"))
      @@ ("actionIcon" :> Merged(toolResult, parsed, "actionIcon"))
      @@ ("multipleActions" :> Merged(toolResult, parsed, "multipleActions"))
      @@ ("errorDetails" :> OrElse(Get(parsed, "errorDetails"), Null)))

\* the try block, lines 582-601: what it returns or throws, with the
\* completion of the dispatcher when it was reached.  matched is false when
\* the block falls through to line 606 without a match
NoDispatch ==
  [c |-> Return(Undef), mints |-> <<>>, ran |-> FALSE, body |-> Return(Undef)]

ParseAttempt(aiMessage, es) ==
  LET Dispatched(parsed, tool) ==
        IF tool.c.threw
        THEN [c |-> tool.c, matched |-> TRUE, parsed |-> parsed, tool |-> tool]
        ELSE [c |-> Return(StructuredResponse(aiMessage, parsed, tool.c.value)),
              matched |-> TRUE, parsed |-> parsed, tool |-> tool]
      Decoded(decoded) ==
        IF decoded.threw
        THEN [c |-> decoded, matched |-> TRUE, parsed |-> Undef, tool |-> NoDispatch]
        ELSE Dispatched(decoded.value, executeToolIfNeeded(decoded.value, es))
      Matched(jsonMatch) ==
        IF ~Truthy(jsonMatch)
        THEN [c |-> Return(Undef), matched |-> FALSE, parsed |-> Undef,
              tool |-> NoDispatch]
        ELSE Decoded(JSONParse(jsonMatch.v))
  IN  Matched(MatchBraces(aiMessage))

\* parseAIResponse without its catch block
parseAIResponseNoCatch(aiMessage, es) ==
  LET Tried(attempt) ==
        IF attempt.matched
        THEN [c |-> attempt.c, decoded |-> ~attempt.c.threw, parsed |-> attempt.parsed,
              tool |-> attempt.tool]
        ELSE [c |-> Return(PlainTextResponse(aiMessage)), decoded |-> FALSE,
              parsed |-> attempt.parsed, tool |-> attempt.tool]
  IN  Tried(ParseAttempt(aiMessage, es))

\* lines 581-617.  Besides the result (c), the completion records whether
\* the reply was decoded, the decoded object (parsed) and the completion of
\* executeToolIfNeeded (tool)
parseAIResponse(aiMessage, es) ==
  LET Tried(attempt) ==
        IF attempt.matched /\ ~attempt.c.threw
        THEN [c |-> attempt.c, decoded |-> TRUE, parsed |-> attempt.parsed,
              tool |-> attempt.tool]
        ELSE [c |-> Return(PlainTextResponse(aiMessage)), decoded |-> FALSE,
              parsed |-> attempt.parsed, tool |-> attempt.tool]
  IN  Tried(ParseAttempt(aiMessage, es))

(***************************************************************************)
(* Request handler, lines 339-578.  The handler runs up to its upstream    *)
(* call, is suspended there, and is resumed by the reply or by the failure *)
(* of that call.  trace records the stages it passes, calls the upstream   *)
(* requests it issues, sent the responses it writes.  NODE_ENV is not      *)
(* 'development'.                                                          *)
(***************************************************************************)
\* c.toLowerCase() for one character
LowerOf(c) ==
  IF c # "" /\ Includes("ABCDEFGHIJKLMNOPQRSTUVWXYZ", c)
  THEN Char("abcdefghijklmnopqrstuvwxyz", IndexFrom("ABCDEFGHIJKLMNOPQRSTUVWXYZ", c, 1))
  ELSE c

RECURSIVE ToLowerCase(_)
\* s.toLowerCase()
ToLowerCase(s) ==
  IF s = "" THEN "" ELSE LowerOf(Char(s, 1)) \o ToLowerCase(SubSeq(s, 2, Len(s)))

\* lines 343-348
IdentityPatterns ==
  {"who made you", "who created you", "your creator", "who built you", "origin",
   "where are you from"}

\* isIdentityQuestion comparing the input as it was typed
isIdentityQuestionCaseSensitive(input) ==
  IF ~Truthy(input) THEN Return(Bool(FALSE))
  ELSE IF ~IsStr(input) THEN Throw(Err("input.toLowerCase is not a function", EmptyFn))
  ELSE Return(Bool(\E p \in IdentityPatterns : Includes(input.v, p)))

\* lines 339-350; a truthy input that is no string has no toLowerCase
isIdentityQuestion(input) ==
  IF ~Truthy(input) THEN Return(Bool(FALSE))
  ELSE IF ~IsStr(input) THEN Throw(Err("input.toLowerCase is not a function", EmptyFn))
  ELSE Return(Bool(\E p \in IdentityPatterns : Includes(ToLowerCase(input.v), p)))

\* x.length > 0
HasLength(x) ==
  \/ (IsArr(x) \/ IsStr(x)) /\ Len(x.v) > 0
  \/ IsObj(x) /\ IsNum(Get(x, "length")) /\ Get(x, "length").v > 0

\* chatHistory.slice(-5)
LastFive(msgs) == SubSeq(msgs, IF Len(msgs) > 5 THEN Len(msgs) - 4 ELSE 1, Len(msgs))

RECURSIVE RenderHistory(_, _)
\* lines 510-512: the forEach over the sliced history, from entry i on;
\* reading msg.role of null or undefined is a TypeError
RenderHistory(msgs, i) ==
  IF i > Len(msgs) THEN Return(Str(""))
  ELSE IF IsNullish(msgs[i])
  THEN Throw(Err("Cannot read properties of " \o StringOf(msgs[i]) \o " (reading 'role')",
                 EmptyFn))
  ELSE LET Then(rest) ==
             IF rest.threw THEN rest
             ELSE Return(Str(StringOf(Get(msgs[i], "role")) \o ": "
                             \o StringOf(Get(msgs[i], "content")) \o "\n" \o rest.value.v))
       IN  Then(RenderHistory(msgs, i + 1))

\* lines 479-578; the fixed prose of the prompt is cut down to its first and
\* last sentences, every interpolated part is kept
buildBasicPrompt(chatInput, chatHistory, contextItem, currentDate, tone) ==
  LET Built(history) ==
        IF history.threw THEN history
        ELSE Return(Str(
               "You are Reva, a friendly and intelligent personal assistant. Current date: "
               \o StringOf(OrElse(currentDate, Str(NowISO)))
               \o ". Speak in a '" \o StringOf(OrElse(tone, Str("Neutral"))) \o "' tone.\n\n"
               \o (IF Truthy(contextItem)
                   THEN "CRITICAL CONTEXT: The user's previous turn was about a "
                        \o StringOf(Get(contextItem, "type")) \o " with ID '"
                        \o StringOf(Get(contextItem, "id"))
                        \o "'. Use UPDATE operations for follow-up requests.\n\n"
                   ELSE "")
               \o history.value.v
               \o "User's request: " \o StringOf(chatInput) \o "\n\n"
               \o "\"tone\": \"" \o StringOf(tone) \o "\"\n\n"
               \o "Choose the appropriate tool and respond with valid JSON."))
      Rendered(lines) ==
        IF lines.threw THEN lines
        ELSE Return(Str("Recent conversation:\n" \o lines.value.v \o "\n"))
  IN  IF Truthy(chatHistory) /\ HasLength(chatHistory)
      THEN IF IsArr(chatHistory)
           THEN Built(Rendered(RenderHistory(LastFive(chatHistory.v), 1)))
           ELSE Throw(Err("chatHistory.slice(...).forEach is not a function", EmptyFn))
      ELSE Built(Return(Str("")))

\* err.response?.status
StatusOf(err) == Get(Prop(err, "response"), "status")

\* the classification without the branch for status 429
ClassifyUpstreamErrorNo429(err) ==
  IF StatusOf(err) = Num(401)
  THEN [userMessage |-> "Authentication error. Please contact support.",
        statusCode |-> 401, retryable |-> FALSE]
  ELSE IF IsNum(StatusOf(err)) /\ StatusOf(err).v >= 400 /\ StatusOf(err).v < 500
  THEN [userMessage |-> "Invalid request. Please try rephrasing your message.",
        statusCode |-> 400, retryable |-> FALSE]
  ELSE IF HasCode(err, "ECONNREFUSED") \/ HasCode(err, "ENOTFOUND")
  THEN [userMessage |-> "Unable to connect to AI service. Please try again later.",
        statusCode |-> 503, retryable |-> TRUE]
  ELSE [userMessage |->
          "Sorry, I encountered an error processing your request. Please try again.",
        statusCode |-> 500, retryable |-> TRUE]

\* lines 436-457
ClassifyUpstreamError(err) ==
  IF StatusOf(err) = Num(401)
  THEN [userMessage |-> "Authentication error. Please contact support.",
        statusCode |-> 401, retryable |-> FALSE]
  ELSE IF StatusOf(err) = Num(429)
  THEN [userMessage |-> "Service is temporarily busy. Please try again in a moment.",
        statusCode |-> 429, retryable |-> TRUE]
  ELSE IF IsNum(StatusOf(err)) /\ StatusOf(err).v >= 400 /\ StatusOf(err).v < 500
  THEN [userMessage |-> "Invalid request. Please try rephrasing your message.",
        statusCode |-> 400, retryable |-> FALSE]
  ELSE IF HasCode(err, "ECONNREFUSED") \/ HasCode(err, "ENOTFOUND")
  THEN [userMessage |-> "Unable to connect to AI service. Please try again later.",
        statusCode |-> 503, retryable |-> TRUE]
  ELSE [userMessage |->
          "Sorry, I encountered an error processing your request. Please try again.",
        statusCode |-> 500, retryable |-> TRUE]

\* an HTTP response: res.status(status).json(body)
Response(status, body) == [status |-> status, body |-> body]

\* lines 459-474: the response of the catch block
ErrorReply(err) ==
  LET Shaped(class) ==
        Response(class.statusCode,
          Obj(("error" :> Str("AI API error"))
              @@ ("details" :> Str("Internal server error"))
              @@ ("aiResponseText" :> Str(class.userMessage))
              @@ ("actionMetadata" :> Null)
              @@ ("contextItemId" :> Null)
              @@ ("contextItemType" :> Null)
              @@ ("updatedItemType" :> Null)
              @@ ("actionIcon" :> Str("error"))
              @@ ("errorDetails" :>
                    Obj(("retryable" :> Bool(class.retryable))
                        @@ ("errorCode" :>
                              OrElse(OrElse(StatusOf(err), Prop(err, "code")),
                                     Str("UNKNOWN_ERROR")))
                        @@ ("timestamp" :> Str(NowISO))
                        @@ ("suggestedAction" :>
                              Str(IF class.retryable THEN "Please try again"
                                  ELSE "Please contact support if the issue persists"))))))
  IN  Shaped(ClassifyUpstreamError(err))

\* lines 370-379
IdentityReply ==
  Response(200,
    Obj(("aiResponseText" :>
           Str("I was built with care by some awesome humans, led by Aakash."))
        @@ ("actionMetadata" :> Null)
        @@ ("contextItemId" :> Null)
        @@ ("contextItemType" :> Null)
        @@ ("updatedItemType" :> Null)
        @@ ("actionIcon" :> Str("info"))
        @@ ("multipleActions" :> Null)
        @@ ("errorDetails" :> Null)))

\* line 365
MissingReply == Response(400, Obj("error" :> Str("Missing chatInput in request body")))

\* lines 413-422
ParsedReply(parsedResponse) ==
  Response(200,
    Obj([f \in {"aiResponseText", "actionMetadata", "contextItemId", "contextItemType",
                "updatedItemType", "actionIcon", "multipleActions", "errorDetails"}
           |-> Get(parsedResponse, f)]))

\* lines 392-406: the request of the one axios.post call
UpstreamRequest(systemPrompt, chatInput) ==
  [url |-> "https://openrouter.ai/api/v1/chat/completions",
   model |-> "anthropic/claude-3-sonnet",
   messages |-> <<[role |-> "system", content |-> systemPrompt],
                  [role |-> "user", content |-> chatInput]>>,
   max_tokens |-> 800]

\* the handler accepting "" and null as a chatInput
MissingChatInputOnlyUndefined(chatInput) == chatInput = Undef

\* line 364: !chatInput
MissingChatInput(chatInput) == ~Truthy(chatInput)

\* what the handler holds of the try block of lines 382-422 while that has
\* not run to its end
NotParsed(c) == [c |-> c, decoded |-> FALSE, parsed |-> Undef, tool |-> NoDispatch]

\* lines 353-406: the handler from the arrival of the request to its
\* upstream call.  An exception of isIdentityQuestion is thrown outside the
\* try block: the handler ends without a response
StartChat(body) ==
  LET Prompted(systemPrompt) ==
        IF systemPrompt.threw
        THEN [trace |-> <<"received", "failed", "responded">>, calls |-> <<>>,
              sent |-> <<ErrorReply(systemPrompt.error)>>, ret |-> NotParsed(systemPrompt)]
        ELSE [trace |-> <<"received", "prompt-built", "upstream-called">>,
              calls |-> <<UpstreamRequest(systemPrompt.value, Get(body, "chatInput"))>>,
              sent |-> <<>>, ret |-> NotParsed(Return(Undef))]
      Asked(identity) ==
        IF identity.threw
        THEN [trace |-> <<"received", "threw">>, calls |-> <<>>, sent |-> <<>>,
              ret |-> NotParsed(identity)]
        ELSE IF identity.value.v
        THEN [trace |-> <<"received", "identity-short-circuit", "responded">>,
              calls |-> <<>>, sent |-> <<IdentityReply>>, ret |-> NotParsed(Return(Undef))]
        ELSE Prompted(IF Truthy(Get(body, "masterPrompt"))
                      THEN Return(Get(body, "masterPrompt"))
                      ELSE buildBasicPrompt(Get(body, "chatInput"),
                                            Get(body, "chatHistory"),
                                            Get(body, "contextItem"),
                                            Get(body, "currentDate"), Get(body, "tone")))
  IN  IF MissingChatInput(Get(body, "chatInput"))
      THEN [trace |-> <<"received", "rejected", "responded">>, calls |-> <<>>,
            sent |-> <<MissingReply>>, ret |-> NotParsed(Return(Undef))]
      ELSE Asked(isIdentityQuestion(Get(body, "chatInput")))

\* response.data.choices?.[0]?.message?.content || '' (line 408); reading
\* choices of a missing data is a TypeError
MessageContent(response) ==
  LET First(choices) ==
        IF IsArr(choices) /\ Len(choices.v) >= 1 THEN choices.v[1] ELSE Undef
  IN  IF IsNullish(Get(response, "data"))
      THEN Throw(Err("Cannot read properties of " \o StringOf(Get(response, "data"))
                     \o " (reading 'choices')", EmptyFn))
      ELSE Return(OrElse(Get(Get(First(Get(Get(response, "data"), "choices")), "message"),
                             "content"),
                         Str("")))

\* parseAIResponse of a message content; a content that is no string has no
\* match method, and the catch of line 602 turns that into the plain answer
ParseContent(aiMessage, es) ==
  IF IsStr(aiMessage) THEN parseAIResponse(aiMessage.v, es)
  ELSE NotParsed(Return(Obj(("aiResponseText" :> aiMessage) @@ PlainTextResponse("").v)))

\* lines 408-422 and the catch of line 423: the handler from the reply of
\* the upstream call to its response
ResumeChat(response, es) ==
  LET Answered(parsedResponse) ==
        [trace |-> <<"parsed">>
                   \o (IF parsedResponse.tool.ran THEN <<"dispatched">> ELSE <<>>)
                   \o <<"responded">>,
         sent |-> <<ParsedReply(parsedResponse.c.value)>>,
         ret |-> parsedResponse]
      Read(aiMessage) ==
        IF aiMessage.threw
        THEN [trace |-> <<"failed", "responded">>, sent |-> <<ErrorReply(aiMessage.error)>>,
              ret |-> NotParsed(aiMessage)]
        ELSE Answered(ParseContent(aiMessage.value, es))
  IN  Read(MessageContent(response))

(***************************************************************************)
(* Behaviours of the three random sources during one generateUUID call.    *)
(***************************************************************************)
ValidLower == "a1b2c3d4-e5f6-4789-a012-b3c4d5e6f789"
ValidUpper == "A1B2C3D4-E5F6-4789-B012-B3C4D5E6F789"
WrongVersion == "a1b2c3d4-e5f6-1789-a012-b3c4d5e6f789"
WrongVariant == "a1b2c3d4-e5f6-4789-c012-b3c4d5e6f789"
TooShort == "a1b2c3d4-e5f6-4789-a012"

LibOutcomes ==
  {[throws |-> TRUE, message |-> "uuid library unavailable", value |-> Undef]}
  \cup {[throws |-> FALSE, message |-> "", value |-> x] :
          x \in {Str(ValidLower), Str(ValidUpper), Str(WrongVersion),
                 Str(WrongVariant), Str(TooShort), Undef}}

Bytes16(a, d) == [i \in 1..16 |-> (a + (i - 1) * d) % 256]
Bytes8 == [i \in 1..8 |-> 17 * i]

CryptoOutcomes ==
  {[throws |-> TRUE, message |-> "crypto unavailable", bytes |-> <<>>]}
  \cup {[throws |-> FALSE, message |-> "", bytes |-> b] :
          b \in {Bytes16(0, 0), Bytes16(255, 0), Bytes16(11, 37), Bytes8}}

MathOutcomes ==
  {[throws |-> TRUE, message |-> "Math.random unavailable", rs |-> <<0>>]}
  \cup {[throws |-> FALSE, message |-> "", rs |-> r] :
          r \in {<<0>>, <<15>>, <<7, 12, 3>>, <<16>>}}

RandomEnvs == [lib : LibOutcomes, crypto : CryptoOutcomes, math : MathOutcomes]

(***************************************************************************)
(* Inputs of the dispatcher: the decoded model replies that are fed to     *)
(* executeToolIfNeeded.                                                    *)
(***************************************************************************)
\* the object with the properties of f whose value is not undefined
MkObj(f) == Obj([key \in {x \in DOMAIN f : f[x].k # "undefined"} |-> f[key]])

\* the i-th identifier of a healthy uuid library
LibUuid(i) == "0000000" \o NatToString(i % 10) \o "-0000-4000-8000-000000000000"

LibThrows == [throws |-> TRUE, message |-> "uuid library unavailable", value |-> Undef]
CryptoThrows == [throws |-> TRUE, message |-> "crypto unavailable", bytes |-> <<>>]
MathThrows == [throws |-> TRUE, message |-> "Math.random unavailable", rs |-> <<0>>]

\* generateUUID call i is served by tier 1, by tier 2, by tier 3, by none
Tier1Env(i) ==
  [lib |-> [throws |-> FALSE, message |-> "", value |-> Str(LibUuid(i))],
   crypto |-> CryptoThrows, math |-> MathThrows]
Tier2Env(i) ==
  [lib |-> LibThrows,
   crypto |-> [throws |-> FALSE, message |-> "", bytes |-> Bytes16(i, 37)],
   math |-> MathThrows]
Tier3Env(i) ==
  [lib |-> [throws |-> FALSE, message |-> "", value |-> Str(WrongVersion)],
   crypto |-> CryptoThrows,
   math |-> [throws |-> FALSE, message |-> "", rs |-> <<i, 12, 3>>]]
DeadEnv(i) ==
  [lib |-> LibThrows, crypto |-> CryptoThrows,
   math |-> [throws |-> FALSE, message |-> "", rs |-> <<16>>]]

EnvOfKind(kind, i) ==
  CASE kind = "tier2" -> Tier2Env(i)
    [] kind = "tier3" -> Tier3Env(i)
    [] kind = "dead" -> DeadEnv(i)
    [] OTHER -> Tier1Env(i)

\* the random sources over the generateUUID calls of one tool call: every
\* call is served by the library, but call number at, served as kind says
EnvStreamsUpTo(lastAt) ==
  {[i \in 1..MaxBatch |-> IF i = at THEN EnvOfKind(kind, i) ELSE Tier1Env(i)] :
     at \in 0..lastAt, kind \in {"tier2", "tier3", "dead"}}

EnvStreams == EnvStreamsUpTo(MaxBatch)

TextValues == {Undef, Null, Str(""), Str("   "), Str(" buy milk "), Num(5)}
IdValues ==
  {Undef, Str(""), Str("task-123"), Str(WrongVersion), Num(42), Str(ValidLower)}
UpdatesValues ==
  {Undef, Null, Str("done"), Obj(EmptyFn), MkObj([status |-> Str("done")])}
TimeValues == {Undef, Str("2024-01-15T10:00:00Z"), Str("tomorrow"), Num(1700000000)}
NonObjects == {Str("abc"), Num(7), Bool(TRUE), Arr(<<>>)}

CreateTaskParams ==
  {MkObj([description |-> d, priority |-> p]) :
     d \in TextValues, p \in {Undef, Str("high")}}

UpdateTaskParams ==
  {MkObj([taskId |-> t, id |-> i, updates |-> u]) :
     t \in IdValues, i \in {Undef, Str(ValidUpper)}, u \in UpdatesValues}

CreateReminderParams ==
  {MkObj([title |-> t, scheduledTime |-> s, description |-> d]) :
     t \in {Undef, Str(""), Str("  "), Str(" call mom "), Num(5)},
     s \in TimeValues,
     d \in {Undef, Str(" weekly "), Num(5)}}

UpdateReminderParams ==
  {MkObj([reminderId |-> r, scheduledTime |-> s, updates |-> u]) :
     r \in {Undef, Str("rem-1"), Str(ValidLower)},
     s \in {Undef, Str("tomorrow")},
     u \in {Undef, Str("later"),
            MkObj([scheduledTime |-> Str("2024-02-01")]),
            MkObj([scheduledTime |-> Str("next week")]),
            MkObj([title |-> Str("call dad")])}}

ExpenseItems ==
  {MkObj([item |-> Str("Coffee"), amount |-> Num(5), category |-> Str("Food")]),
   MkObj([item |-> Str(" Taxi "), amount |-> Num(12)]),
   MkObj([amount |-> Num(3)]),
   MkObj([item |-> Str(""), amount |-> Num(4)]),
   MkObj([item |-> Str("Tea"), amount |-> Num(0)]),
   MkObj([item |-> Str("Tea"), amount |-> Str("5")]),
   Null}

\* the arrays of at most n expenses
RECURSIVE ExpenseBatches(_)
ExpenseBatches(n) ==
  IF n = 0 THEN {<<>>}
  ELSE ExpenseBatches(n - 1)
       \cup {Append(b, x) : b \in {c \in ExpenseBatches(n - 1) : Len(c) = n - 1},
                            x \in ExpenseItems}

TrackExpensesParams ==
  {MkObj([expenses |-> Arr(b)]) : b \in ExpenseBatches(MaxBatch)}
  \cup {MkObj([item |-> Str("Lunch"), amount |-> a]) : a \in {Num(9), Num(0 - 2), Undef}}
  \cup {MkObj([expenses |-> MkObj([item |-> Str("Lunch"), amount |-> Num(9)])])}

CreateGoalParams ==
  {MkObj([title |-> t, target |-> g, progress |-> p, description |-> d]) :
     t \in {Undef, Str("  "), Str(" run 5k "), Num(5)},
     g \in {Undef, Null, Num(10), Num(0), Str("10")},
     p \in {Undef, Num(0), Num(3), Num(0 - 1)},
     d \in {Undef, Str(" weekly "), Num(5)}}

UpdateGoalParams ==
  {MkObj([goalId |-> g, updates |-> u]) :
     g \in {Undef, Str("goal-1"), Str(ValidLower)},
     u \in {Undef, Str("more"),
            MkObj([target |-> Num(10)]), MkObj([target |-> Num(0)]),
            MkObj([progress |-> Num(0 - 1)]),
            MkObj([progress |-> Num(5), target |-> Num(3)])}}

CreateJournalEntryParams ==
  {MkObj([content |-> c, mood |-> m]) :
     c \in {Undef, Str(""), Str("  "), Str(" a good day "), Num(5)},
     m \in {Undef, Str(""), Str(" happy "), Num(5)}}

GeneralChatParams ==
  {MkObj([tone |-> t, response |-> r]) :
     t \in {Undef, Str("casual")}, r \in {Undef, Str("hi"), Num(5)}}

KnownTools ==
  {"createTask", "updateTask", "createReminder", "updateReminder", "trackExpenses",
   "createGoal", "updateGoal", "createJournalEntry", "generalChat"}

\* the variants that create one item
CreateTools == {"createTask", "createReminder", "createGoal", "createJournalEntry"}

ParamsOf(tool) ==
  CASE tool = "createTask" -> CreateTaskParams
    [] tool = "updateTask" -> UpdateTaskParams
    [] tool = "createReminder" -> CreateReminderParams
    [] tool = "updateReminder" -> UpdateReminderParams
    [] tool = "trackExpenses" -> TrackExpensesParams
    [] tool = "createGoal" -> CreateGoalParams
    [] tool = "updateGoal" -> UpdateGoalParams
    [] tool = "createJournalEntry" -> CreateJournalEntryParams
    [] OTHER -> GeneralChatParams

UnknownToolNames ==
  {Str("deleteTask"), Str("timeout"), Str("CreateTask"), Num(5), Obj(EmptyFn)}

\* the decoded replies: a known tool with its parameter values or with a
\* value that is no object, an unknown tool, the alias spelling, and replies
\* that lack the tool or the parameters
ToolInputs ==
  UNION {{MkObj([tool |-> Str(t), toolParams |-> p]) : p \in ParamsOf(t) \cup NonObjects} :
           t \in KnownTools}
  \cup {MkObj([tool |-> t, toolParams |-> MkObj([description |-> Str("x")])]) :
          t \in UnknownToolNames}
  \cup {MkObj([selectedTool |-> Str("createTask"), parameters |-> p]) :
          p \in CreateTaskParams}
  \cup {MkObj([tool |-> t, toolParams |-> p, aiResponseText |-> Str("ok")]) :
          t \in {Undef, Null, Str(""), Str("createTask")},
          p \in {Undef, Null, Num(0), Str("")}}

\* the decoded replies of a later call in the same process
LaterToolInputs ==
  {MkObj([tool |-> Str("createTask"), toolParams |-> MkObj([description |-> d])]) :
     d \in {Str(" buy milk "), Str("")}}
  \cup {MkObj([tool |-> Str(t), toolParams |-> MkObj([title |-> Str(" run 5k ")])]) :
          t \in {"createReminder", "createGoal"}}
  \cup {MkObj([tool |-> Str("createJournalEntry"),
               toolParams |-> MkObj([content |-> Str(" a good day ")])]),
        MkObj([tool |-> Str("updateTask"),
               toolParams |-> MkObj([taskId |-> Str(ValidLower),
                                     updates |-> MkObj([status |-> Str("done")])])]),
        MkObj([tool |-> Str("trackExpenses"),
               toolParams |-> MkObj([item |-> Str("Lunch"), amount |-> Num(9)])]),
        MkObj([tool |-> Str("trackExpenses"),
               toolParams |-> MkObj([item |-> Str("Lunch"), amount |-> Num(0)])]),
        MkObj([tool |-> Str("generalChat"), toolParams |-> MkObj([response |-> Str("hi")])]),
        MkObj([tool |-> Str("deleteTask"), toolParams |-> MkObj([id |-> Str("x")])])}

(***************************************************************************)
(* Inputs of the response parser: the texts of model replies.              *)
(***************************************************************************)
\* "name":value as JSON text
Member(name, valueText) == "\"" \o name \o "\":" \o valueText
Quoted(text) == "\"" \o text \o "\""

\* the tool and toolParams members of a reply
ToolMembers ==
  {"," \o Member("tool", Quoted(t[1])) \o "," \o Member("toolParams", t[2]) :
     t \in {<<"createTask", "{\"description\":\"buy milk\"}">>,
            <<"createTask", "{\"description\":\"\"}">>,
            <<"createTask", "{\"description\":\" pay rent \",\"priority\":\"high\"}">>,
            <<"createTask", "null">>,
            <<"updateTask", "{\"taskId\":\"" \o ValidLower
                            \o "\",\"updates\":{\"status\":\"done\"}}">>,
            <<"updateTask", "{\"taskId\":\"task-123\",\"updates\":{}}">>,
            <<"createReminder", "{\"title\":\"call mom\",\"scheduledTime\":\"tomorrow\"}">>,
            <<"createReminder",
              "{\"title\":\"call mom\",\"scheduledTime\":\"2024-01-15T10:00:00Z\"}">>,
            <<"trackExpenses", "{\"expenses\":[{\"item\":\"Coffee\",\"amount\":5},"
                               \o " {\"item\":\"Taxi\",\"amount\":12}]}">>,
            <<"trackExpenses", "{\"expenses\":[{\"item\":\"Coffee\",\"amount\":5},"
                               \o "{\"item\":\"Tea\",\"amount\":0}]}">>,
            <<"trackExpenses", "{\"expenses\":[]}">>,
            <<"createGoal", "{\"title\":\"run 5k\",\"target\":10,\"progress\":-1}">>,
            <<"createGoal", "{\"title\":\"run 5k\",\"target\":10}">>,
            <<"updateGoal", "{\"goalId\":\"" \o ValidLower
                            \o "\",\"updates\":{\"progress\":-1}}">>,
            <<"createJournalEntry", "{\"content\":\"a good day\",\"mood\":\"happy\"}">>,
            <<"generalChat", "{\"tone\":\"casual\",\"response\":\"hi\"}">>,
            <<"deleteTask", "{\"id\":\"x\"}">>}}
  \cup {"",
        "," \o Member("selectedTool", Quoted("createTask")) \o ","
            \o Member("parameters", "{\"description\":\"buy milk\"}")}

\* the result fields a reply may claim for itself
ClaimedMembers ==
  {"",
   "," \o Member("errorDetails", "{\"model\":true}"),
   "," \o Member("contextItemId", Quoted("model-id")),
   "," \o Member("actionMetadata", "{\"tool\":\"model\"}")
       \o "," \o Member("contextItemId", Quoted("model-id"))
       \o "," \o Member("contextItemType", Quoted("model"))
       \o "," \o Member("updatedItemType", Quoted("model"))
       \o "," \o Member("actionIcon", Quoted("model"))
       \o "," \o Member("multipleActions", "[{\"type\":\"model\"}]")
       \o "," \o Member("errorDetails", "{\"model\":true}")}

ReplyObjects ==
  {"{" \o Member("aiResponseText", a) \o t \o c \o "}" :
     a \in {Quoted("On it"), Quoted(""), "7"}, t \in ToolMembers, c \in ClaimedMembers}

\* a reply object inside prose, and texts that hold no single JSON object
RawTexts ==
  {pre \o r \o post :
     pre \in {"", "Sure: ", "{draft} "}, r \in ReplyObjects, post \in {"", " Done.", " }"}}
  \cup {"", "plain text answer", "}{", "{", "}", "{oops}", "{}", " { } ",
        "{\"tool\":\"createTask\",}", "{\"tool\":}", "{\"a\":1} and {\"b\":2}",
        "{\"aiResponseText\":\"a } b\"}", "[{\"tool\":\"createTask\"}]",
        "{\"aiResponseText\":\"line\\nbreak\",\"tool\":\"generalChat\",\"toolParams\":{}}"}

(***************************************************************************)
(* Inputs of the request handler: request bodies, upstream replies and     *)
(* upstream failures.                                                      *)
(***************************************************************************)
ChatInputs ==
  {Undef, Null, Str(""), Num(0), Num(5), Arr(<<Str("who made you")>>),
   Str("Who made you?"), Str("WHO BUILT YOU"), Str("tell me the Origin of tea"),
   Str("where are you from"), Str("add milk to my list"), Str("I spent 500 on groceries")}

\* a chat history of n turns
HistoryOf(n) ==
  Arr([i \in 1..n |->
         MkObj([role |-> Str(IF i % 2 = 1 THEN "user" ELSE "assistant"),
                content |-> Str("turn " \o NatToString(i))])])

\* what a request carries besides chatInput
ChatContexts ==
  {EmptyFn,
   ("masterPrompt" :> Str("You are Reva.")),
   ("chatHistory" :> HistoryOf(2)) @@ ("tone" :> Str("Casual"))
     @@ ("currentDate" :> Str("2024-01-15")),
   ("chatHistory" :> HistoryOf(6))
     @@ ("contextItem" :> MkObj([type |-> Str("task"), id |-> Str(ValidLower)])),
   ("chatHistory" :> Arr(<<>>)) @@ ("contextItem" :> Str("task")),
   ("chatHistory" :> Str("user: hi")),
   ("chatHistory" :> Arr(<<MkObj([role |-> Str("user")]), Null>>)),
   ("chatHistory" :> Arr(<<MkObj([role |-> Str("user"), content |-> Str("hello")]),
                           MkObj([role |-> Str("assistant")]),
                           MkObj([content |-> Str("and then?")])>>)),
   ("chatHistory" :> Str("user: hi")) @@ ("masterPrompt" :> Str("You are Reva."))}

ChatBodies ==
  {MkObj(("chatInput" :> i) @@ c) : i \in ChatInputs, c \in ChatContexts}

\* the texts the model may answer with
ChatReplyTexts ==
  {"{" \o Member("aiResponseText", Quoted("On it")) \o t \o "}" : t \in ToolMembers}
  \cup {"plain text answer", "{oops}",
        "{" \o Member("aiResponseText", Quoted("Done"))
            \o "," \o Member("tool", Quoted("createTask"))
            \o "," \o Member("toolParams", "{\"description\":\"\"}")
            \o "," \o Member("errorDetails", "{\"model\":true}") \o "}"}

\* the resolved value of the upstream call
ReplyWith(content) ==
  Obj("data" :> Obj("choices" :> Arr(<<Obj("message" :> MkObj([content |-> content]))>>)))

UpstreamReplies ==
  {ReplyWith(Str(t)) : t \in ChatReplyTexts}
  \cup {ReplyWith(Undef), ReplyWith(Num(7)), Obj(EmptyFn), Obj("data" :> Obj(EmptyFn)),
        Obj("data" :> Obj("choices" :> Arr(<<>>)))}

\* the rejections of the upstream call: an HTTP status, a connection error,
\* a timeout, both a status and a connection error code
UpstreamErrors ==
  {Err("Request failed with status code " \o NatToString(s),
       ("response" :> Obj("status" :> Num(s))) @@ ("code" :> Str("ERR_BAD_REQUEST"))) :
     s \in {400, 401, 403, 404, 429, 499, 500, 502, 503}}
  \cup {Err("connect " \o c, ("code" :> Str(c))) :
          c \in {"ECONNREFUSED", "ENOTFOUND", "ETIMEDOUT", "ECONNRESET"}}
  \cup {Err("timeout of 1000ms exceeded", ("code" :> Str("ECONNABORTED"))),
        Err("socket hang up", EmptyFn),
        Err("Request failed with status code 404",
            ("response" :> Obj("status" :> Num(404))) @@ ("code" :> Str("ECONNREFUSED"))),
        Err("Request failed with status code 502",
            ("response" :> Obj("status" :> Num(502))) @@ ("code" :> Str("ENOTFOUND")))}

(***************************************************************************)
(* Several requests in flight.  Node runs one handler invocation at a time *)
(* and switches between invocations only where one awaits its upstream     *)
(* call (line 392).  server.js declares no variable outside its functions  *)
(* but the constants of lines 1-5 and 326-329, so that an invocation holds *)
(* its request in the locals of lines 354-362 and answers on its own res.  *)
(***************************************************************************)
\* the connections on which requests arrive
Connections == {"c1", "c2"}

\* a connection on which no request has arrived yet
Idle ==
  [body |-> Undef, upstream |-> "none", reply |-> Undef, failure |-> NoError, es |-> <<>>,
   trace |-> <<>>, calls |-> <<>>, sent |-> <<>>, arrivedAt |-> 0, resumedAt |-> 0]

\* the last stage of a trace
StageOf(t) == IF t = <<>> THEN "none" ELSE t[Len(t)]

\* the number of handler runs so far: arrivals and resumptions; arrivedAt and
\* resumedAt of a connection number the two runs of its invocation
Runs(all) ==
  Cardinality({q \in Connections : all[q].arrivedAt > 0})
  + Cardinality({q \in Connections : all[q].resumedAt > 0})

\* res.status(..).json(..) with one res object kept for the whole process:
\* the responses go to a connection that still waits, if there is another
RespondOnSharedRes(all, c, replies) ==
  LET waiting == {q \in Connections \ {c} : StageOf(all[q].trace) = "upstream-called"}
  IN  IF waiting = {} \/ replies = <<>> THEN [all EXCEPT ![c].sent = @ \o replies]
      ELSE [all EXCEPT ![CHOOSE q \in waiting : TRUE].sent = @ \o replies]

\* res.status(..).json(..) (lines 365, 370, 413, 459): res is the parameter
\* of the invocation that serves connection c (line 353)
Respond(all, c, replies) == [all EXCEPT ![c].sent = @ \o replies]

\* lines 353-406 for the request arriving on connection c
Arrive(all, c, body) ==
  LET Started(r) ==
        Respond([all EXCEPT ![c] = [Idle EXCEPT !.body = body, !.trace = r.trace,
                                                !.calls = r.calls,
                                                !.upstream = IF r.calls = <<>> THEN "none"
                                                             ELSE "pending"]],
                c, r.sent)
  IN  Started(StartChat(body))

\* lines 408-422 for the invocation of connection c, resumed by the reply of
\* its upstream call
Resume(all, c, response, es) ==
  LET Resumed(r) ==
        Respond([all EXCEPT ![c].trace = @ \o r.trace, ![c].upstream = "replied",
                            ![c].reply = response, ![c].es = es],
                c, r.sent)
  IN  Resumed(ResumeChat(response, es))

\* lines 423-475 for the invocation of connection c, resumed by the failure
\* of its upstream call
Recover(all, c, err) ==
  Respond([all EXCEPT ![c].trace = @ \o <<"failed", "responded">>,
                      ![c].upstream = "failed", ![c].failure = err],
          c, <<ErrorReply(err)>>)

\* the requests and the upstream outcomes of the interleaved runs
ServedBodies ==
  {MkObj([chatInput |-> Str("add milk to my list")]),
   MkObj([chatInput |-> Str("I spent 500 on groceries"), chatHistory |-> HistoryOf(2),
          tone |-> Str("Casual")]),
   MkObj([chatInput |-> Str("")]),
   MkObj([chatInput |-> Str("Who made you?")]),
   MkObj([chatInput |-> Str("add milk to my list"), chatHistory |-> Str("user: hi")]),
   MkObj([chatInput |-> Num(5)])}

ServedReplies ==
  {ReplyWith(Str("{" \o Member("aiResponseText", Quoted("On it")) \o ","
                  \o Member("tool", Quoted(t[1])) \o "," \o Member("toolParams", t[2])
                  \o "}")) :
     t \in {<<"createTask", "{\"description\":\"buy milk\"}">>,
            <<"trackExpenses", "{\"expenses\":[{\"item\":\"Coffee\",\"amount\":5},"
                               \o " {\"item\":\"Taxi\",\"amount\":12}]}">>}}
  \cup {ReplyWith(Str("plain text answer")), Obj(EmptyFn)}

\* the random sources a resumed invocation meets: all three tiers working,
\* or all three failing for its first identifier
ServedSources ==
  {[i \in 1..MaxBatch |-> IF i = at THEN DeadEnv(i) ELSE Tier1Env(i)] : at \in {0, 1}}

ServedFailures ==
  {Err("Request failed with status code 429",
       ("response" :> Obj("status" :> Num(429))) @@ ("code" :> Str("ERR_BAD_REQUEST"))),
   Err("connect ECONNREFUSED", ("code" :> Str("ECONNREFUSED")))}

(***************************************************************************)
(* State machine.  The server keeps no state between calls, so a behaviour *)
(* examines one call from the initial state: a state holds the operation   *)
(* run, its argument, the behaviour of the random sources it saw, and its  *)
(* completion.  SpecServe follows several chat requests at once, one per   *)
(* connection, in served.                                                  *)
(***************************************************************************)
Init ==
  /\ op = "none"
  /\ arg = Undef
  /\ env = <<>>
  /\ ret = [c |-> Return(Undef), log |-> <<>>]
  /\ past = <<>>
  /\ trace = <<>>
  /\ calls = <<>>
  /\ sent = <<>>
  /\ served = [c \in Connections |-> Idle]

\* a call of generateUUID()
CallGenerateUUID ==
  \E e \in RandomEnvs :
    /\ op = "none"
    /\ op' = "generateUUID"
    /\ arg' = Undef
    /\ env' = <<e>>
    /\ ret' = generateUUID(e)
    /\ UNCHANGED <<past, trace, calls, sent, served>>

\* a call of generateFallbackUUID()
CallGenerateFallbackUUID ==
  \E e \in RandomEnvs :
    /\ op = "none"
    /\ op' = "generateFallbackUUID"
    /\ arg' = Undef
    /\ env' = <<e>>
    /\ ret' = generateFallbackUUID(e)
    /\ UNCHANGED <<past, trace, calls, sent, served>>

\* a call of executeToolIfNeeded(parsedResponse)
CallExecuteToolIfNeeded ==
  \E parsedResponse \in ToolInputs, es \in EnvStreams :
    /\ op = "none"
    /\ op' = "executeToolIfNeeded"
    /\ arg' = parsedResponse
    /\ env' = es
    /\ ret' = executeToolIfNeeded(parsedResponse, es)
    /\ UNCHANGED <<past, trace, calls, sent, served>>

\* the tool body of the call just made failed because generateUUID threw
IdentifierFailure ==
  /\ op = "executeToolIfNeeded"
  /\ ret.ran
  /\ ret.body.threw
  /\ HasCode(ret.body.error, "UUID_GENERATION_FAILURE")

\* a later call of executeToolIfNeeded in the same process; the model
\* follows a second call after a call of a create variant that ended in an
\* identifier generation failure
CallExecuteToolIfNeededAgain ==
  \E parsedResponse \in LaterToolInputs, es \in EnvStreamsUpTo(1) :
    /\ IdentifierFailure
    /\ \E t \in CreateTools :
         Is(OrElse(Get(arg, "tool"), Get(arg, "selectedTool")), t)
    /\ past = <<>>
    /\ past' = <<[arg |-> arg, c |-> ret.c]>>
    /\ op' = "executeToolIfNeeded"
    /\ arg' = parsedResponse
    /\ env' = es
    /\ ret' = executeToolIfNeeded(parsedResponse, es)
    /\ UNCHANGED <<trace, calls, sent, served>>

\* a call of parseAIResponse(aiMessage)
CallParseAIResponse ==
  \E aiMessage \in RawTexts, es \in EnvStreamsUpTo(1) :
    /\ op = "none"
    /\ op' = "parseAIResponse"
    /\ arg' = Str(aiMessage)
    /\ env' = es
    /\ ret' = parseAIResponse(aiMessage, es)
    /\ UNCHANGED <<past, trace, calls, sent, served>>

\* the stage the handler is at
Stage == IF trace = <<>> THEN "none" ELSE trace[Len(trace)]

\* a request arrives at POST /api/v1/chat and is handled up to the upstream
\* call (lines 353-406)
ChatRequest ==
  \E body \in ChatBodies :
    LET Started(r) ==
          /\ trace' = r.trace
          /\ calls' = r.calls
          /\ sent' = r.sent
          /\ ret' = r.ret
    IN  /\ op = "none"
        /\ op' = "chat"
        /\ arg' = body
        /\ env' = <<>>
        /\ Started(StartChat(body))
        /\ UNCHANGED <<past, served>>

\* the upstream call resolves and the handler runs to its response (lines
\* 408-422, or the catch of line 423)
UpstreamReplied ==
  \E response \in UpstreamReplies, es \in EnvStreamsUpTo(1) :
    LET Resumed(r) ==
          /\ trace' = trace \o r.trace
          /\ sent' = sent \o r.sent
          /\ ret' = r.ret
    IN  /\ op = "chat"
        /\ Stage = "upstream-called"
        /\ env' = es
        /\ Resumed(ResumeChat(response, es))
        /\ UNCHANGED <<op, arg, past, calls, served>>

\* the upstream call rejects and the catch block answers (lines 423-475)
UpstreamFailed ==
  \E err \in UpstreamErrors :
    /\ op = "chat"
    /\ Stage = "upstream-called"
    /\ trace' = trace \o <<"failed", "responded">>
    /\ sent' = sent \o <<ErrorReply(err)>>
    /\ ret' = NotParsed(Throw(err))
    /\ UNCHANGED <<op, arg, env, past, calls, served>>

\* a request arrives on a connection without one and its handler runs up to
\* its upstream call, or to its response where it makes none
RequestArrives ==
  \E c \in Connections, body \in ServedBodies :
    /\ op = "none"
    /\ served[c].trace = <<>>
    /\ served' = [Arrive(served, c, body) EXCEPT ![c].arrivedAt = Runs(served) + 1]
    /\ UNCHANGED <<op, arg, env, ret, past, trace, calls, sent>>

\* the upstream call of one waiting invocation resolves
ReplyArrives ==
  \E c \in Connections, response \in ServedReplies, es \in ServedSources :
    /\ StageOf(served[c].trace) = "upstream-called"
    /\ served' = [Resume(served, c, response, es) EXCEPT ![c].resumedAt = Runs(served) + 1]
    /\ UNCHANGED <<op, arg, env, ret, past, trace, calls, sent>>

\* the upstream call of one waiting invocation rejects
FailureArrives ==
  \E c \in Connections, err \in ServedFailures :
    /\ StageOf(served[c].trace) = "upstream-called"
    /\ served' = [Recover(served, c, err) EXCEPT ![c].resumedAt = Runs(served) + 1]
    /\ UNCHANGED <<op, arg, env, ret, past, trace, calls, sent>>

NextGen == CallGenerateUUID \/ CallGenerateFallbackUUID

SpecGen == Init /\ [][NextGen]_vars

NextTool == CallExecuteToolIfNeeded \/ CallExecuteToolIfNeededAgain

SpecTool == Init /\ [][NextTool]_vars

NextParse == CallParseAIResponse

SpecParse == Init /\ [][NextParse]_vars

NextChat == ChatRequest \/ UpstreamReplied \/ UpstreamFailed

SpecChat == Init /\ [][NextChat]_vars

NextServe == RequestArrives \/ ReplyArrives \/ FailureArrives

SpecServe == Init /\ [][NextServe]_vars

Next == NextGen \/ NextTool \/ NextParse \/ NextChat \/ NextServe

Spec == Init /\ [][Next]_vars

(***************************************************************************)
(* Properties of the identifier generator, checked under SpecGen.          *)
(***************************************************************************)
\* the random sources the call of this state saw
CallEnv == env[1]

\* tier k of the call would hand out a validated candidate
TierCandidate(e, k) ==
  CASE k = 1 -> e.lib.value
    [] k = 2 -> Str(CryptoCandidate(e.crypto.bytes))
    [] OTHER -> Str(MathCandidate(e.math.rs))

TierServes(e, k) ==
  /\ ~(CASE k = 1 -> e.lib.throws [] k = 2 -> e.crypto.throws [] OTHER -> e.math.throws)
  /\ UuidRegexTest(StringOf(TierCandidate(e, k)))

\* the first tier at or after k that serves, 0 when none does
FirstServing(e, k) ==
  IF \E j \in k..3 : TierServes(e, j)
  THEN CHOOSE j \in k..3 : TierServes(e, j) /\ \A i \in k..(j - 1) : ~TierServes(e, i)
  ELSE 0

TiersOf(log) == [i \in 1..Len(log) |-> log[i].tier]

\* C1: every value that generateUUID() or generateFallbackUUID() returns
\* passes isValidUUID, and no candidate rejected by a tier's validation is
\* the value returned.
C1_ReturnedIdentifierIsValid ==
  (op \in {"generateUUID", "generateFallbackUUID"} /\ ~ret.c.threw)
    => /\ isValidUUID(ret.c.value)
       /\ \A i \in 1..Len(ret.log) :
            ret.log[i].outcome = "invalid" => ret.log[i].candidate # ret.c.value

\* the library's candidate was rejected and a later tier's candidate returned
C1_Witness ==
  /\ op = "generateUUID"
  /\ ~ret.c.threw
  /\ Len(ret.log) = 3
  /\ ret.log[1].outcome = "invalid"
  /\ ret.log[2].outcome = "invalid"

\* C2: generateUUID attempts tiers 1, 2, 3 in that order, stops at the
\* first tier whose candidate validates and returns that candidate, and
\* throws exactly when all three tiers failed.
C2_TiersInOrder ==
  op = "generateUUID"
    => LET first == FirstServing(CallEnv, 1)
       IN  /\ \A i \in 1..Len(ret.log) : ret.log[i].tier = i
           /\ \A i \in 1..(Len(ret.log) - 1) : ret.log[i].outcome # "ok"
           /\ ret.c.threw <=> first = 0
           /\ ret.c.threw => TiersOf(ret.log) = <<1, 2, 3>>
           /\ ~ret.c.threw => /\ Len(ret.log) = first
                              /\ ret.log[first].outcome = "ok"
                              /\ ret.c.value = TierCandidate(CallEnv, first)

\* the library threw, the crypto tier served, Math.random was left alone
\* although it would have served too
C2_Witness ==
  /\ op = "generateUUID"
  /\ ~ret.c.threw
  /\ TiersOf(ret.log) = <<1, 2>>
  /\ ret.log[1].outcome = "threw"
  /\ TierServes(CallEnv, 3)

\* the error e carries the text m in its message or in one of its
\* string properties
Carries(e, m) ==
  \/ Includes(e.message, m)
  \/ \E p \in DOMAIN e.props : IsStr(e.props[p]) /\ Includes(e.props[p].v, m)

\* C3: when generateUUID throws, the error is the UUID_GENERATION_FAILURE
\* error, it has a timestamp, and it carries the error message of each of
\* the three tiers attempted.
C3_FailureCarriesEveryTierMessage ==
  (op = "generateUUID" /\ ret.c.threw)
    => /\ HasCode(ret.c.error, "UUID_GENERATION_FAILURE")
       /\ Truthy(Prop(ret.c.error, "timestamp"))
       /\ \A i \in 1..Len(ret.log) : Carries(ret.c.error, ret.log[i].message)

(***************************************************************************)
(* Properties of the tool dispatcher, checked under SpecTool.              *)
(***************************************************************************)
\* the object o has the property key
Present(o, key) == IsObj(o) /\ key \in DOMAIN o.v

\* the tool name and the parameters the dispatcher reads from its argument
CalledTool == OrElse(Get(arg, "tool"), Get(arg, "selectedTool"))
CalledParams == OrElse(Get(arg, "toolParams"), Get(arg, "parameters"))

\* the batch trackExpenses works on
Batch(params) ==
  IF IsArr(Get(params, "expenses")) THEN Get(params, "expenses").v ELSE <<params>>

\* an expense with a missing, non-string or empty item name, or with an
\* amount that is not a number greater than 0
InvalidExpense(x) ==
  \/ ~IsStr(Get(x, "item"))
  \/ Get(x, "item").v = ""
  \/ ~IsNum(Get(x, "amount"))
  \/ Get(x, "amount").v <= 0

\* the codes of the parameter checks of the tool variants
ValidationCodes ==
  {"INVALID_PARAMETERS", "MISSING_TASK_ID", "INVALID_TASK_ID_FORMAT",
   "MISSING_UPDATE_DATA", "INVALID_SCHEDULED_TIME", "MISSING_REMINDER_ID",
   "INVALID_REMINDER_ID_FORMAT", "NO_EXPENSES_PROVIDED", "INVALID_EXPENSE_ITEM",
   "INVALID_EXPENSE_AMOUNT", "INVALID_GOAL_TARGET", "INVALID_GOAL_PROGRESS",
   "MISSING_GOAL_ID", "INVALID_GOAL_ID_FORMAT", "INVALID_MOOD_FORMAT"}

\* the tool body of this call ended in a failed parameter check
ValidationFailure ==
  /\ op = "executeToolIfNeeded"
  /\ ret.ran
  /\ ret.body.threw
  /\ \E code \in ValidationCodes : HasCode(ret.body.error, code)

C8_OnlyCreateVariantsMint ==
  (op = "executeToolIfNeeded" /\ ret.ran)
    => LET minting == IsStr(CalledTool)
                      /\ CalledTool.v \in CreateTools \cup {"trackExpenses"}
       IN  /\ ~minting => Len(ret.mints) = 0
           /\ (minting /\ ~ret.body.threw /\ CalledTool.v \in CreateTools)
                => Len(ret.mints) = 1
           /\ (minting /\ ~ret.body.threw /\ CalledTool.v = "trackExpenses")
                => Len(ret.mints) = Len(Batch(CalledParams))

\* a successful trackExpenses over a batch of two or more expenses
C8_Witness ==
  /\ op = "executeToolIfNeeded"
  /\ ret.ran
  /\ ~ret.body.threw
  /\ Is(CalledTool, "trackExpenses")
  /\ Len(Batch(CalledParams)) >= 2
  /\ Len(ret.mints) = Len(Batch(CalledParams))

\* C9: in a call that ends in a validation failure, generateUUID has not
\* been called, whatever the tool.
C9_NoMintBeforeValidationFailure ==
  ValidationFailure => Len(ret.mints) = 0

\* C10: when any expense of a trackExpenses batch is invalid, the call
\* returns a fragment whose only property is errorDetails.
C10_TrackExpensesAllOrNothing ==
  (/\ op = "executeToolIfNeeded"
   /\ ret.ran
   /\ Is(CalledTool, "trackExpenses")
   /\ \E i \in 1..Len(Batch(CalledParams)) : InvalidExpense(Batch(CalledParams)[i]))
    => /\ ~ret.c.threw
       /\ ret.body.threw
       /\ IsObj(ret.c.value)
       /\ DOMAIN ret.c.value.v = {"errorDetails"}
       /\ Truthy(Get(ret.c.value, "errorDetails"))

\* a batch whose first expense is valid and got its identifier, and whose
\* later expense is invalid
C10_Witness ==
  /\ op = "executeToolIfNeeded"
  /\ Is(CalledTool, "trackExpenses")
  /\ Len(Batch(CalledParams)) >= 2
  /\ ~InvalidExpense(Batch(CalledParams)[1])
  /\ InvalidExpense(Batch(CalledParams)[2])
  /\ Len(ret.mints) = 1
  /\ DOMAIN ret.c.value.v = {"errorDetails"}

\* the sum of the amounts of the expenses batch[i..]
RECURSIVE BatchTotal(_, _)
BatchTotal(batch, i) ==
  IF i > Len(batch) THEN 0 ELSE Get(batch[i], "amount").v + BatchTotal(batch, i + 1)

\* a trackExpenses call whose tool body returned
TrackedExpenses ==
  /\ op = "executeToolIfNeeded"
  /\ ret.ran
  /\ Is(CalledTool, "trackExpenses")
  /\ ~ret.body.threw

Malformed(t) == IsStr(t) /\ t.v # "" /\ ~isValidUUID(t)

\* C12: updateTask with a malformed taskId fails with INVALID_TASK_ID_FORMAT
\* whatever the updates (absent, null, a string, an empty or a filled
\* object) and whatever else the params hold.
C12_MalformedTaskIdAlwaysRejected ==
  (/\ op = "executeToolIfNeeded"
   /\ ret.ran
   /\ Is(CalledTool, "updateTask")
   /\ Malformed(Get(CalledParams, "taskId")))
    => /\ ret.body.threw
       /\ HasCode(ret.body.error, "INVALID_TASK_ID_FORMAT")
       /\ ~ret.c.threw
       /\ Get(Get(Get(ret.c.value, "errorDetails"), "technicalDetails"), "errorCode")
            = Str("INVALID_TASK_ID_FORMAT")

\* a malformed taskId came with updates that are no object
C12_Witness ==
  /\ op = "executeToolIfNeeded"
  /\ ret.ran
  /\ Is(CalledTool, "updateTask")
  /\ Malformed(Get(CalledParams, "taskId"))
  /\ IsStr(Get(CalledParams, "updates"))
  /\ HasCode(ret.body.error, "INVALID_TASK_ID_FORMAT")

\* C13: a dispatched tool name outside the nine known names yields an
\* errorDetails fragment with error code UNKNOWN_TOOL and retryable false.
C13_UnknownToolFailsNonRetryable ==
  (/\ op = "executeToolIfNeeded"
   /\ ret.ran
   /\ ~(IsStr(CalledTool) /\ CalledTool.v \in KnownTools))
    => LET details == Get(ret.c.value, "errorDetails")
       IN  /\ ~ret.c.threw
           /\ Get(Get(details, "technicalDetails"), "errorCode") = Str("UNKNOWN_TOOL")
           /\ Get(details, "retryable") = Bool(FALSE)

\* the manual section that belongs to a tool
SectionOf(tool) ==
  CASE tool \in {"createTask", "updateTask"} -> "Tasks"
    [] tool \in {"createReminder", "updateReminder"} -> "Reminders"
    [] tool = "trackExpenses" -> "Expenses"
    [] tool \in {"createGoal", "updateGoal"} -> "Goals"
    [] tool = "createJournalEntry" -> "Journal"
    [] OTHER -> "?"

\* C14: every validation failure is turned by the dispatcher into a
\* returned errorDetails record that carries the failed check's code, has
\* retryable false, names the tool that was called, and suggests doing the
\* operation manually in the section of that tool.
C14_ValidationFailureIsLocalAndFinal ==
  ValidationFailure
    => LET details == Get(ret.c.value, "errorDetails")
       IN  /\ ~ret.c.threw
           /\ DOMAIN ret.c.value.v = {"errorDetails"}
           /\ Get(Get(details, "technicalDetails"), "errorCode")
                = Prop(ret.body.error, "code")
           /\ Get(details, "retryable") = Bool(FALSE)
           /\ Get(details, "tool") = CalledTool
           /\ IsStr(Get(details, "suggestedAction"))
           /\ Includes(Get(details, "suggestedAction").v,
                       "manually in the " \o SectionOf(CalledTool.v) \o " section")

\* an invalid amount in a trackExpenses batch came back as a final error
\* that points to the Expenses section
C14_Witness ==
  /\ ValidationFailure
  /\ Is(CalledTool, "trackExpenses")
  /\ HasCode(ret.body.error, "INVALID_EXPENSE_AMOUNT")
  /\ Get(Get(ret.c.value, "errorDetails"), "retryable") = Bool(FALSE)
  /\ Includes(Get(Get(ret.c.value, "errorDetails"), "suggestedAction").v, "Expenses")

\* the tool variants that call generateUUID
MintingTools == CreateTools \cup {"trackExpenses"}

\* every generateUUID call of this tool call returned an identifier
AllMinted == \A i \in 1..Len(ret.mints) : ~ret.mints[i].c.threw

\* C15: when generateUUID throws inside a tool call, which happens only in
\* the variants that create items, executeToolIfNeeded returns normally a
\* fragment whose only property is errorDetails, with error code
\* UUID_GENERATION_FAILURE and retryable true; and a later call in the same
\* process that gets every identifier it asks for and fails no parameter
\* check returns a success fragment that carries the new identifier.
C15_IdentifierFailureIsConfinedToOneCall ==
  /\ (op = "executeToolIfNeeded" /\ ret.ran /\ ~AllMinted)
       => LET details == Get(ret.c.value, "errorDetails")
          IN  /\ \E t \in MintingTools : Is(CalledTool, t)
              /\ IdentifierFailure
              /\ ~ret.c.threw
              /\ DOMAIN ret.c.value.v = {"errorDetails"}
              /\ Get(Get(details, "technicalDetails"), "errorCode")
                   = Str("UUID_GENERATION_FAILURE")
              /\ Get(details, "retryable") = Bool(TRUE)
  /\ (/\ op = "executeToolIfNeeded"
      /\ past # <<>>
      /\ ret.ran
      /\ Len(ret.mints) >= 1
      /\ AllMinted
      /\ ~ValidationFailure)
       => /\ Get(Get(past[1].c.value, "errorDetails"), "retryable") = Bool(TRUE)
          /\ ~ret.c.threw
          /\ ~ret.body.threw
          /\ ~Present(ret.c.value, "errorDetails")
          /\ Truthy(Get(ret.c.value, "actionMetadata"))
          /\ \/ Get(ret.c.value, "contextItemId") = ret.mints[1].c.value
             \/ Get(Get(ret.c.value, "multipleActions").v[1], "id") = ret.mints[1].c.value

\* after a createTask call that failed for want of an identifier, a later
\* createTask call got an identifier from the uuid library and succeeded
C15_Witness ==
  /\ op = "executeToolIfNeeded"
  /\ past # <<>>
  /\ Is(Get(past[1].arg, "tool"), "createTask")
  /\ Get(Get(Get(past[1].c.value, "errorDetails"), "technicalDetails"), "errorCode")
       = Str("UUID_GENERATION_FAILURE")
  /\ Is(CalledTool, "createTask")
  /\ Len(ret.mints) = 1
  /\ ~ret.body.threw
  /\ isValidUUID(Get(ret.c.value, "contextItemId"))

(***************************************************************************)
(* Properties of the response parser, checked under SpecParse.             *)
(***************************************************************************)
ResultFields ==
  {"aiResponseText", "actionMetadata", "contextItemId", "contextItemType",
   "updatedItemType", "actionIcon", "multipleActions", "errorDetails"}

DispatcherFields == ResultFields \ {"aiResponseText"}

\* the raw text holds no brace-delimited span, or the span is not JSON
DecodeFails(raw) ==
  \/ ~Truthy(MatchBraces(raw))
  \/ JSONParse(MatchBraces(raw).v).threw

\* a tool was attempted during the parseAIResponse call of this state
ToolAttempt == op = "parseAIResponse" /\ ret.tool.ran

\* C5: after a tool attempt the result of parseAIResponse has exactly one
\* of actionMetadata and errorDetails populated: actionMetadata when the
\* tool succeeded, errorDetails when it failed.
C5_ExactlyOneOfMetadataAndError ==
  ToolAttempt
    => /\ Truthy(Get(ret.c.value, "actionMetadata")) <=> ~ret.tool.body.threw
       /\ Truthy(Get(ret.c.value, "errorDetails")) <=> ret.tool.body.threw

\* C6: parseAIResponse returns normally for every input string; its
\* result always has a non-null aiResponseText; when the input cannot be
\* decoded the result is the raw input as aiResponseText with every other
\* field null.
C6_ParserNeverThrows ==
  op = "parseAIResponse"
    => /\ ~ret.c.threw
       /\ IsObj(ret.c.value)
       /\ DOMAIN ret.c.value.v = ResultFields
       /\ ~IsNullish(Get(ret.c.value, "aiResponseText"))
       /\ DecodeFails(arg.v)
            => /\ Get(ret.c.value, "aiResponseText") = arg
               /\ \A f \in DispatcherFields : Get(ret.c.value, f) = Null

\* braces were found but what they delimit is not JSON, and the raw text
\* came back
C6_Witness ==
  /\ op = "parseAIResponse"
  /\ Truthy(MatchBraces(arg.v))
  /\ JSONParse(MatchBraces(arg.v).v).threw
  /\ ~ret.c.threw
  /\ Get(ret.c.value, "aiResponseText") = arg

\* C7: after a tool attempt, every one of the seven dispatcher fields that
\* the dispatcher's fragment contains has the dispatcher's value in the
\* result of parseAIResponse, whatever the decoded model JSON held.
C7_DispatcherOutputTakesPrecedence ==
  ToolAttempt
    => \A f \in DispatcherFields :
         Present(ret.tool.c.value, f)
           => Get(ret.c.value, f) = Get(ret.tool.c.value, f)


(***************************************************************************)
(* Properties of the request handler, checked under SpecChat.              *)
(***************************************************************************)
\* the chatInput of the request being handled
ChatInput == Get(arg, "chatInput")

\* the handler passed the stage named
Passed(stage) == \E i \in 1..Len(trace) : trace[i] = stage

\* the text s holds the lower-case pattern p in some letter case
HoldsIgnoringCase(s, p) ==
  \E j \in 1..(Len(s) - Len(p) + 1) :
    \A m \in 1..Len(p) : LowerOf(Char(s, j + m - 1)) = Char(p, m)

\* the request asks who made the assistant
AsksIdentity ==
  /\ op = "chat"
  /\ IsStr(ChatInput)
  /\ \E p \in IdentityPatterns : HoldsIgnoringCase(ChatInput.v, p)

\* C16: a chatInput that holds one of the six identity patterns in any
\* letter case is answered with status 200, the fixed identity sentence,
\* actionIcon 'info' and every other field null; no prompt is built and no
\* upstream call is issued for the request.
C16_IdentityQuestionShortCircuits ==
  AsksIdentity
    => /\ Len(sent) = 1
       /\ sent[1].status = 200
       /\ Get(sent[1].body, "aiResponseText")
            = Str("I was built with care by some awesome humans, led by Aakash.")
       /\ Get(sent[1].body, "actionIcon") = Str("info")
       /\ \A f \in ResultFields \ {"aiResponseText", "actionIcon"} :
            Present(sent[1].body, f) /\ Get(sent[1].body, f) = Null
       /\ calls = <<>>
       /\ ~Passed("prompt-built")
       /\ ~Passed("upstream-called")

\* an identity question in capitals was answered without an upstream call
C16_Witness ==
  /\ AsksIdentity
  /\ ChatInput = Str("WHO BUILT YOU")
  /\ Len(sent) = 1
  /\ Get(sent[1].body, "actionIcon") = Str("info")
  /\ calls = <<>>

\* C17: a request whose chatInput is absent, null or the empty string is
\* answered with status 400 and a body that holds only an error text; the
\* handler goes from received straight to that response, with no identity
\* answer, no prompt and no upstream call.
C17_MissingChatInputIsRejected ==
  (op = "chat" /\ (IsNullish(ChatInput) \/ ChatInput = Str("")))
    => /\ Len(sent) = 1
       /\ sent[1].status = 400
       /\ DOMAIN sent[1].body.v = {"error"}
       /\ IsStr(Get(sent[1].body, "error"))
       /\ calls = <<>>
       /\ trace = <<"received", "rejected", "responded">>

\* an empty chatInput was rejected
C17_Witness ==
  /\ op = "chat"
  /\ ChatInput = Str("")
  /\ Len(sent) = 1
  /\ sent[1].status = 400
  /\ calls = <<>>

\* the place of a stage in the pipeline of a request
RankOf(stage) ==
  CASE stage = "received" -> 1
    [] stage \in {"rejected", "identity-short-circuit", "prompt-built"} -> 2
    [] stage = "upstream-called" -> 3
    [] stage = "parsed" -> 4
    [] stage = "dispatched" -> 5
    [] stage = "failed" -> 6
    [] stage = "responded" -> 7
    [] OTHER -> 0

\* C18: a request moves forward through the pipeline received, identity
\* short-circuit or prompt-built, upstream-called, parsed, dispatched,
\* responded; the upstream endpoint is called at most once, a failure
\* gives one classified error response, and a request that is not waiting
\* for the upstream call has produced exactly one response.
C18_OneLinearPipelinePerRequest ==
  op = "chat"
    => /\ trace[1] = "received"
       /\ \A i \in 1..Len(trace) : RankOf(trace[i]) > 0
       /\ \A i \in 1..(Len(trace) - 1) : RankOf(trace[i]) < RankOf(trace[i + 1])
       /\ Len(calls) <= 1
       /\ Passed("upstream-called") <=> Len(calls) = 1
       /\ Len(sent) <= 1
       /\ Stage # "upstream-called" => Len(sent) = 1
       /\ Passed("failed")
            => /\ Len(sent) = 1
               /\ sent[1].status \in {400, 401, 429, 500, 503}
               /\ IsObj(Get(sent[1].body, "errorDetails"))

\* the status and the retryable flag that belong to a caught error
ClassOf(err) ==
  CASE StatusOf(err) = Num(401) -> [status |-> 401, retryable |-> FALSE]
    [] StatusOf(err) = Num(429) -> [status |-> 429, retryable |-> TRUE]
    [] /\ IsNum(StatusOf(err))
       /\ StatusOf(err).v \in 400..499
       /\ StatusOf(err).v \notin {401, 429} -> [status |-> 400, retryable |-> FALSE]
    [] /\ ~(IsNum(StatusOf(err)) /\ StatusOf(err).v \in 400..499)
       /\ \E c \in {"ECONNREFUSED", "ENOTFOUND"} : HasCode(err, c)
         -> [status |-> 503, retryable |-> TRUE]
    [] OTHER -> [status |-> 500, retryable |-> TRUE]

\* C19: an error caught by the handler is answered by its class: status
\* 401 gives HTTP 401 not retryable, 429 gives HTTP 429 retryable, another
\* 4xx gives HTTP 400 not retryable, otherwise a refused or unresolved
\* connection gives HTTP 503 retryable, anything else HTTP 500 retryable;
\* suggestedAction is 'Please try again' exactly when retryable is true.
C19_UpstreamFailureClassification ==
  (op = "chat" /\ Passed("failed"))
    => LET details == Get(sent[1].body, "errorDetails")
       IN  /\ ret.c.threw
           /\ sent[1].status = ClassOf(ret.c.error).status
           /\ Get(details, "retryable") = Bool(ClassOf(ret.c.error).retryable)
           /\ Get(details, "suggestedAction") = Str("Please try again")
                <=> Get(details, "retryable") = Bool(TRUE)

\* a rejection with status 404 that also carries the code ECONNREFUSED was
\* answered as a 4xx, and a rejection with status 429 as busy
C19_Witness ==
  /\ op = "chat"
  /\ Passed("failed")
  /\ ret.c.threw
  /\ \/ /\ StatusOf(ret.c.error) = Num(404)
        /\ HasCode(ret.c.error, "ECONNREFUSED")
        /\ sent[1].status = 400
     \/ /\ StatusOf(ret.c.error) = Num(429)
        /\ sent[1].status = 429

\* the request ended on an error path: the handler caught an error, or the
\* tool the model chose failed
ErrorPath ==
  /\ op = "chat"
  /\ Stage = "responded"
  /\ \/ Passed("failed")
     \/ ret.tool.ran /\ ret.tool.body.threw

\* C20: the response of every error path has a non-empty aiResponseText
\* and an errorDetails object with the fields retryable, errorCode,
\* timestamp and suggestedAction.
C20_ErrorPathsReturnErrorEnvelope ==
  ErrorPath
    => /\ Len(sent) = 1
       /\ IsStr(Get(sent[1].body, "aiResponseText"))
       /\ Truthy(Get(sent[1].body, "aiResponseText"))
       /\ IsObj(Get(sent[1].body, "errorDetails"))
       /\ \A f \in {"retryable", "errorCode", "timestamp", "suggestedAction"} :
            Present(Get(sent[1].body, "errorDetails"), f)


(***************************************************************************)
(* Further properties of the response parser, checked under SpecParse.     *)
(***************************************************************************)
\* the positions of the character c in s
PositionsOf(s, c) == {j \in 1..Len(s) : Char(s, j) = c}

\* the text has a "{" with a "}" somewhere after it
HasBraceSpan(s) == \E i \in PositionsOf(s, "{"), j \in PositionsOf(s, "}") : i < j

\* the outermost brace span of s: from its first "{" to its last "}"
OuterSpan(s) ==
  SubSeq(s, CHOOSE i \in PositionsOf(s, "{") : \A m \in PositionsOf(s, "{") : i <= m,
            CHOOSE j \in PositionsOf(s, "}") : \A m \in PositionsOf(s, "}") : m <= j)

\* the first brace span of s: from its first "{" to the first "}" after it
FirstSpan(s) ==
  LET i == CHOOSE i \in PositionsOf(s, "{") : \A m \in PositionsOf(s, "{") : i <= m
  IN  SubSeq(s, i, CHOOSE j \in PositionsOf(s, "}") :
                     j > i /\ \A m \in PositionsOf(s, "}") : m > i => j <= m)

\* C26: parseAIResponse decodes the text from the first "{" to the last "}"
\* of the raw text and nothing else: without such a span, or when the span
\* is no JSON, the result is the plain-text fallback and no tool is run,
\* even if a shorter span inside is a JSON object; otherwise the decoded
\* object is what JSON.parse gives for that span.
C26_OuterBraceSpanIsDecoded ==
  op = "parseAIResponse"
    => IF HasBraceSpan(arg.v) /\ ~JSONParse(OuterSpan(arg.v)).threw
       THEN /\ ret.decoded
            /\ ret.parsed = JSONParse(OuterSpan(arg.v)).value
       ELSE /\ ~ret.decoded
            /\ ~ret.tool.ran
            /\ ret.c = Return(PlainTextResponse(arg.v))

\* the raw text holds a JSON object in its first brace span, its outermost
\* span is no JSON, and the plain-text fallback came back
C26_Witness ==
  /\ op = "parseAIResponse"
  /\ HasBraceSpan(arg.v)
  /\ ~JSONParse(FirstSpan(arg.v)).threw
  /\ JSONParse(OuterSpan(arg.v)).threw
  /\ ret.c = Return(PlainTextResponse(arg.v))

\* C28: the contextItemId of every result of parseAIResponse is null or a
\* string that passes isValidUUID, whatever the model text: also when the
\* tool fails, when no tool is dispatched, and when the tool sets no
\* context item.
C28_NoMalformedIdentifierReachesClient ==
  op = "parseAIResponse"
    => \/ Get(ret.c.value, "contextItemId") = Null
       \/ /\ IsStr(Get(ret.c.value, "contextItemId"))
          /\ isValidUUID(Get(ret.c.value, "contextItemId"))

(***************************************************************************)
(* Further properties of the tool variants, checked under SpecTool.        *)
(***************************************************************************)
\* the parameter that names the entity an update variant works on
IdKeyOf(tool) ==
  CASE tool = "updateTask" -> "taskId"
    [] tool = "updateReminder" -> "reminderId"
    [] tool = "updateGoal" -> "goalId"

UpdateTools == {"updateTask", "updateReminder", "updateGoal"}

\* the id an update variant was called with
SuppliedId(tool) == OrElse(Get(CalledParams, IdKeyOf(tool)), Get(CalledParams, "id"))

\* the error code the caller finds in the dispatcher's result
ErrorCodeOf(result) ==
  Get(Get(Get(result, "errorDetails"), "technicalDetails"), "errorCode")

\* C25: a call of updateTask, updateReminder or updateGoal with an id of
\* valid format and without an updates object fails with
\* MISSING_UPDATE_DATA, and its result has no actionMetadata
C25_UpdateWithoutUpdatesObjectIsRejected ==
  \A tool \in UpdateTools :
    (/\ op = "executeToolIfNeeded"
     /\ ret.ran
     /\ Is(CalledTool, tool)
     /\ IsStr(SuppliedId(tool))
     /\ isValidUUID(SuppliedId(tool))
     /\ ~IsObj(Get(CalledParams, "updates")))
      => /\ ~ret.c.threw
         /\ ErrorCodeOf(ret.c.value) = Str("MISSING_UPDATE_DATA")
         /\ ~Present(ret.c.value, "actionMetadata")

\* the entity type and the identifier field of the create and update
\* variants
EntityOf(tool) ==
  CASE tool \in {"createTask", "updateTask"} -> [type |-> "task", idField |-> "task_id"]
    [] tool \in {"createReminder", "updateReminder"}
         -> [type |-> "reminder", idField |-> "reminder_id"]
    [] tool \in {"createGoal", "updateGoal"} -> [type |-> "goal", idField |-> "goal_id"]
    [] tool = "createJournalEntry" -> [type |-> "journal", idField |-> "entry_id"]

\* the call of this state ran the tool named and the tool succeeded
Succeeded(tool) ==
  /\ op = "executeToolIfNeeded"
  /\ ret.ran
  /\ Is(CalledTool, tool)
  /\ ~ret.body.threw

C29_KnownToolsNeverFailUnclassified ==
  (/\ op = "executeToolIfNeeded"
   /\ ret.ran
   /\ \E tool \in KnownTools : Is(CalledTool, tool))
    => /\ ~ret.c.threw
       /\ ErrorCodeOf(ret.c.value) # Str("UNKNOWN_ERROR")
       /\ ret.body.threw
            => \/ HasCode(ret.body.error, "UUID_GENERATION_FAILURE")
               \/ \E code \in ValidationCodes : HasCode(ret.body.error, code)

\* the required text parameter of a create variant
TextKeyOf(tool) ==
  CASE tool = "createTask" -> "description"
    [] tool \in {"createReminder", "createGoal"} -> "title"
    [] tool = "createJournalEntry" -> "content"

\* C30: the text a successful create variant stores in actionMetadata
\* (description, title, content) is a non-empty string: a required text
\* made only of whitespace is rejected like an empty one.
C30_StoredTextIsNeverEmpty ==
  \A tool \in CreateTools :
    Succeeded(tool)
      => /\ IsStr(Get(Get(ret.c.value, "actionMetadata"), TextKeyOf(tool)))
         /\ Get(Get(ret.c.value, "actionMetadata"), TextKeyOf(tool)) # Str("")

(***************************************************************************)
(* Properties of requests in flight at the same time, checked under        *)
(* SpecServe.                                                              *)
(***************************************************************************)
\* the server on which no request has arrived
NoneServed == [c \in Connections |-> Idle]

\* the request of r handled on connection c of a server that serves nothing
\* else, with the upstream outcome and the random sources r met
RunAlone(c, r) ==
  LET Outcome(a) ==
        IF r.upstream = "replied" THEN Resume(a, c, r.reply, r.es)[c]
        ELSE IF r.upstream = "failed" THEN Recover(a, c, r.failure)[c]
        ELSE a[c]
  IN  CHOOSE alone \in {Outcome(a) : a \in {Arrive(NoneServed, c, r.body)}} : TRUE

\* the invocations of c and d overlapped: d arrived while c waited for its
\* upstream call
Overlapped(c, d) ==
  /\ served[c].arrivedAt > 0
  /\ served[c].arrivedAt < served[d].arrivedAt
  /\ served[c].resumedAt > served[d].arrivedAt

SystemPrompt == calls[1].messages[1].content

\* the handler built its prompt with buildBasicPrompt from a history that is
\* an array with entries
PromptFromHistory ==
  /\ op = "chat"
  /\ calls # <<>>
  /\ ~Truthy(Get(arg, "masterPrompt"))
  /\ IsArr(Get(arg, "chatHistory"))
  /\ Len(Get(arg, "chatHistory").v) > 0

\* an entry that has both a role and a content field
HasBothFields(msg) == IsObj(msg) /\ Present(msg, "role") /\ Present(msg, "content")

RECURSIVE CompleteLines(_, _)
\* the 'role: content' lines of the entries of msgs, from entry i on, that
\* have both fields
CompleteLines(msgs, i) ==
  IF i > Len(msgs) THEN ""
  ELSE (IF HasBothFields(msgs[i])
        THEN StringOf(Get(msgs[i], "role")) \o ": " \o StringOf(Get(msgs[i], "content"))
             \o "\n"
        ELSE "")
       \o CompleteLines(msgs, i + 1)

\* the last five entries of the request's history
LastFiveOfRequest ==
  LET h == Get(arg, "chatHistory").v
  IN  [i \in 1..Min(5, Len(h)) |-> h[Len(h) - Min(5, Len(h)) + i]]

\* C23: the history section of a prompt built from a history holds, between
\* its heading and the user's request, the 'role: content' lines of the last
\* five entries in their order, and of these only the entries that have both
\* a role and a content field
C23_HistoryRendersCompleteEntriesOnly ==
  PromptFromHistory =>
    Includes(SystemPrompt.v,
             "Recent conversation:\n" \o CompleteLines(LastFiveOfRequest, 1)
             \o "\nUser's request: ")


\* the request gets as far as buildBasicPrompt: it has a chatInput that is
\* no identity question and no masterPrompt
ReachesPromptBuilder ==
  /\ op = "chat"
  /\ IsStr(ChatInput)
  /\ ChatInput.v # ""
  /\ ~AsksIdentity
  /\ ~Truthy(Get(arg, "masterPrompt"))

\* C24: buildBasicPrompt returns a string whatever chatHistory, contextItem,
\* currentDate and tone are: every request that gets as far as the prompt
\* builder goes on to its upstream call with a string as system prompt, and
\* none is answered with an error before that call
C24_PromptBuildingNeverFails ==
  ReachesPromptBuilder
    => /\ Passed("prompt-built")
       /\ Len(calls) = 1
       /\ IsStr(SystemPrompt)
       /\ Passed("failed") => Passed("upstream-called")

====
